---- MODULE Spec2Model ----
(***************************************************************************)
(* A model of the core of recipe-executor: the Context (context.py), the   *)
(* Executor (executor.py), the parallel step (steps/parallel.py) and the   *)
(* loop step (steps/loop.py).  Each subsystem has its own specification    *)
(* over its own variables; the variables of the other subsystems keep      *)
(* their initial value.                                                    *)
(***************************************************************************)
EXTENDS Integers, Sequences, FiniteSets, TLC

VARIABLES
    \* ---- Context (context.py) ----
    heap,        \* the mutable list objects artifacts and config values refer to
    nalloc,      \* number of heap objects allocated so far
    ctxArt,      \* Context._artifacts of each Context instance
    ctxCfg,      \* Context.config of each Context instance
    cloned,      \* whether clone() has been called on the original
    target,      \* the instance the last operation was applied to
    lastOp,      \* the last operation applied
    nops,        \* number of operations applied (bounded)
    \* ---- Executor.execute (executor.py) ----
    recipe,      \* loaded_recipe.steps: the type of behaviour of each step
    step_index,  \* the index of the step the for loop is at
    exPc,        \* where execute is: "loop", "awaiting", "done", "failed"
    constructed, \* per step index: how often step_class(logger, config) returned
    started,     \* per step index: how often execute(context) was called
    completed,   \* per step index: how often execute(context) completed
    exErr,       \* the exception execute raised to its caller
    exCtx,       \* the context: the indices of the steps that wrote to it, in order
    exMsg,       \* the message of the exception execute raised
    \* ---- ParallelStep.execute (steps/parallel.py) ----
    step_count,      \* len(substep_defs)
    subKind,         \* per substep: its execute completes ("ok") or raises ("fail"), its
                     \* type is not registered ("unknown"), or rendering its definition
                     \* or its constructor raises ("reject")
    max_concurrency, \* config.max_concurrency (0: no semaphore)
    delay,           \* config.delay: 0, or 1 for any positive delay
    task,            \* per substep: the state of its asyncio task
    sem,             \* the value of the semaphore (free slots)
    pending_idx,     \* the launcher's next index; all_tasks holds tasks 0..pending_idx-1
    launcher,        \* the state of launcher_task
    stop_launching,  \* the flag of that name
    parPc,           \* where execute is
    idx,             \* the index of execute's for loop
    results,         \* the results list: per substep "none" or "err"
    gathered,        \* number of tasks handed to asyncio.gather
    inflight_exc,    \* index of the substep whose error is being raised (-1: none)
    parOut,          \* how execute ended
    pctx,            \* the contexts: 0 is the parent, i + 1 the clone of substep i
    taskCtx,         \* per substep: the context its step was executed with
    firstFailed,     \* history: the substep that failed first in time (-1: none)
    \* ---- LoopStep.execute (steps/loop.py) ----
    items_is_list,   \* isinstance(items_obj, list) (else a dict)
    total_items,     \* len(items_list)
    iterFails,       \* per item: whether the substeps raise for it
    rebinds,         \* whether the substeps rebind item_key (to ten times the item)
    fail_fast,       \* config.fail_fast
    loop_conc,       \* config.max_concurrency of the loop (1: sequential, 0: no semaphore)
    loop_delay,      \* config.delay of the loop: 0, or 1 for any positive delay
    iter,            \* per item: the state of its iteration
    iterStarted,     \* per item: how often process_single_item was entered
    itemCtx,         \* per item: the value bound to item_key in its clone (0: no clone)
    loop_exc,        \* the exception execute raised ("none": none)
    items_type,      \* type(items_obj): "list", "dict", or a type that is neither
    item_context,    \* per item: the Context its substeps run on (-1: none,
                     \* 0: the parent, k + 1: the clone made for item k)
    loop_sem,        \* the value of the loop's semaphore
    doneOrder,       \* the iterations that have finished, in order of completion
    consumed,        \* how many results the as_completed loop has taken
    loop_results,    \* the results collection
    loop_errors,     \* the errors collection
    fail_fast_triggered, \* the flag of that name
    completed_count, \* the counter of that name
    loopPc,          \* where execute is
    loopIdx,         \* the index of the for loop over items_list
    loopCtx,         \* the parent context: result_key and result_key__errors
    in_place,        \* whether the substeps transform the object bound to item_key in place
    parentItems,     \* the parent context: the contents of the elements of the items collection
    parentOther,     \* the parent context: another artifact (1) and the configuration (2)
    cloneOther,      \* per item: that other artifact and the configuration in its clone
    cloneItems,      \* per item: the items collection as copied into its clone (<<>>: no clone)
    \* ---- ConditionalStep (steps/conditional.py) ----
    cond_eval,       \* the rendered condition, parsed into its parts
    cond_result,     \* what evaluating the condition gives: "true", "false" or "error"
    has_if_true,     \* whether the config gives if_true
    has_if_false,    \* whether the config gives if_false
    if_true,         \* the steps of if_true (their behaviours), <<>> if absent
    if_false,        \* the steps of if_false, <<>> if absent
    condPc,          \* where the step is
    condIdx,         \* idx of the loop over the branch's steps
    condBuilt,       \* history: the <<branch, index>> of every step constructed
    condRan,         \* history: the <<branch, index>> of every step whose execute completed
    condCtx,         \* the context: the writes made by the branch's steps
    condOut,         \* how the step ended
    \* ---- ExecuteRecipeStep.execute (steps/execute_recipe.py) ----
    executor_kind,   \* self.executor: "async" (Executor of executor.py) or "sync"
    path_exists,     \* os.path.exists(rendered_recipe_path)
    context_overrides, \* config.context_overrides, in the order of the dict
    sub_steps,       \* the steps of the referenced recipe (their behaviours)
    rendered_overrides, \* the dict of that name
    erCtx,           \* the context the step is given (the parent context)
    erPc,            \* where execute is
    erIdx,           \* the index of the sub-recipe step the executor is at
    subRan,          \* history: the sub-recipe steps that have completed
    subWrote,        \* history: the keys written by sub-recipe steps
    erOut,           \* how execute ended
    \* ---- the Step Registry (steps/registry.py, steps/__init__.py, registry.py) ----
    STEP_REGISTRY,   \* the dict: per type name the class bound to it ("none": no entry)
    first_registered, \* history: per type name the class of its first registration
    regLog,          \* history: the registrations made, in order
    regOut,          \* how the last registration ended
    \* ---- cancellation of the running step by its caller (task.cancel()) ----
    cancel_requested, \* whether the caller has cancelled the step
    \* ---- two Executor.execute invocations on one Executor ----
    re_recipe,  \* per invocation: the steps of its recipe
    re_step_index,  \* per frame: the local step_index of the for loop
    re_pc,  \* per invocation: where its coroutine is
    re_ctx,  \* per invocation: the writes made to its context, in order
    re_out,  \* per invocation: how it ended
    re_order, \* the invocations in the order their steps were started
    \* ---- Executor.execute: loading and validating the recipe argument ----
    ld_arg,  \* the type of the recipe argument
    ld_isfile,  \* os.path.isfile(recipe), for a str or Path argument
    ld_readable,  \* whether the file can be opened and read
    ld_parses,  \* whether the text (of the file or of the argument) is well-formed JSON
    ld_doc,  \* the document: the dict argument or the parsed JSON
    ld_pc,  \* where execute is
    ld_out,  \* how execute ended
    ld_index,  \* step_index of the for loop
    ld_constructed,  \* the config each constructed step was given, in order
    ld_ctx, \* the writes made to the context, in order
    \* ---- the last read or delete made on a Context by a caller ----
    read_key,  \* the key of the last read or delete
    read_result, \* what the caller got: a value, or the exception raised
    \* ---- _eval_condition on a logical combinator (steps/conditional.py) ----
    logic_op,  \* the combinator of the expression: and, or, not
    logic_args,  \* its sub-expressions, as _split_args gives them
    logic_pc,  \* where _eval_condition is
    logic_result  \* what it gave: "true", "false", "error", or "none" before it ends

ctxVars == <<heap, nalloc, ctxArt, ctxCfg, cloned, target, lastOp, nops>>
exVars == <<recipe, step_index, exPc, constructed, started, completed, exErr, exCtx,
           exMsg>>

parVars == <<step_count, subKind, max_concurrency, delay, task, sem, pending_idx,
             launcher, stop_launching, parPc, idx, results, gathered, inflight_exc,
             parOut, pctx, taskCtx, firstFailed>>

loopVars == <<items_is_list, total_items, loop_exc, items_type, item_context,
              iterFails, rebinds, fail_fast, loop_conc,
              loop_delay, iter, iterStarted, itemCtx, loop_sem, doneOrder, consumed,
              loop_results, loop_errors, fail_fast_triggered, completed_count, loopPc,
              loopIdx, loopCtx, in_place, parentItems, parentOther, cloneOther,
              cloneItems>>

condVars == <<cond_eval, cond_result, has_if_true, has_if_false, if_true, if_false, condPc,
              condIdx, condBuilt, condRan, condCtx, condOut>>

erVars == <<executor_kind, path_exists, context_overrides, sub_steps,
            rendered_overrides, erCtx, erPc, erIdx, subRan, subWrote, erOut>>

regVars == <<STEP_REGISTRY, first_registered, regLog, regOut>>

cancelVars == <<cancel_requested>>

reVars == <<re_recipe, re_step_index, re_pc, re_ctx, re_out, re_order>>

ldVars == <<ld_arg, ld_isfile, ld_readable, ld_parses, ld_doc, ld_pc, ld_out, ld_index, ld_constructed, ld_ctx>>

rdVars == <<read_key, read_result>>

lgVars == <<logic_op, logic_args, logic_pc, logic_result>>

vars == <<ctxVars, exVars, parVars, loopVars, condVars, erVars, regVars, cancelVars, reVars, ldVars, rdVars, lgVars>>

\* What the operations of one subsystem leave alone.
ctxOthers == <<exVars, parVars, loopVars, condVars, erVars, regVars, cancelVars, reVars, ldVars, rdVars, lgVars>>
exOthers == <<ctxVars, parVars, loopVars, condVars, erVars, regVars, cancelVars, reVars, ldVars, rdVars, lgVars>>
parOthers == <<ctxVars, exVars, loopVars, condVars, erVars, regVars, cancelVars, reVars, ldVars, rdVars, lgVars>>
loopOthers == <<ctxVars, exVars, parVars, condVars, erVars, regVars, cancelVars, reVars, ldVars, rdVars, lgVars>>
condOthers == <<ctxVars, exVars, parVars, loopVars, erVars, regVars, cancelVars, reVars, ldVars, rdVars, lgVars>>
erOthers == <<ctxVars, exVars, parVars, loopVars, condVars, regVars, cancelVars, reVars, ldVars, rdVars, lgVars>>
regOthers == <<ctxVars, exVars, parVars, loopVars, condVars, erVars, cancelVars, reVars, ldVars, rdVars, lgVars>>
reOthers == <<ctxVars, exVars, parVars, loopVars, condVars, erVars, regVars, cancelVars, ldVars, rdVars, lgVars>>
ldOthers == <<ctxVars, exVars, parVars, loopVars, condVars, erVars, regVars, cancelVars, reVars, rdVars, lgVars>>
rdOthers == <<exVars, parVars, loopVars, condVars, erVars, regVars, cancelVars, reVars, ldVars, lgVars>>
lgOthers == <<ctxVars, exVars, parVars, loopVars, condVars, erVars, regVars, cancelVars, reVars, ldVars, rdVars>>

(***************************************************************************)
(* Context                                                                 *)
(***************************************************************************)

Keys == {"k1", "k2"}
Scalars == {0, 1}

\* Bounds of the Context model.
MaxAddr == 4
MaxLen == 1
MaxOps == 3

Addrs == 1..MaxAddr
CtxIds == {"orig", "clone"}
Other(c) == IF c = "orig" THEN "clone" ELSE "orig"

\* A stored value: absent, a scalar, or a reference to a mutable list object.
NoVal == [t |-> "none", v |-> 0]
IntVal(n) == [t |-> "int", v |-> n]
RefVal(a) == [t |-> "ref", v |-> a]
IsRef(x) == x.t = "ref"

EmptyMap == [k \in Keys |-> NoVal]

\* The addresses a mapping refers to.
RefsOf(m) == {m[k].v : k \in {kk \in Keys : IsRef(m[kk])}}

\* The position of address a among the addresses of R, in increasing order.
Rank(a, R) == Cardinality({b \in R : b <= a})

\* (Mutant of CloneArtifacts and CloneConfig.)
\* copy.copy: the mapping is copied, the objects it refers to are shared.
ShallowCopy(m, h, n) == [m |-> m, h |-> h, n |-> n]

\* copy.deepcopy of a mapping held in heap h with n objects allocated: every
\* object the mapping refers to is copied to a fresh address (one copy per
\* object, so aliasing inside the mapping is kept).
DeepCopy(m, h, n) ==
    LET R == RefsOf(m)
        new(a) == n + Rank(a, R)
    IN [m |-> [k \in Keys |-> IF IsRef(m[k]) THEN RefVal(new(m[k].v)) ELSE m[k]],
        h |-> [a \in Addrs |->
                 IF \E b \in R : new(b) = a
                 THEN h[CHOOSE b \in R : new(b) = a]
                 ELSE h[a]],
        n |-> n + Cardinality(R)]

\* What a caller can observe of instance c: artifacts and configuration with
\* every reference resolved to the contents of the object.
Resolve(x) == IF IsRef(x) THEN [t |-> "list", items |-> heap[x.v]]
              ELSE [t |-> x.t, items |-> <<x.v>>]
Obs(c) == [art |-> [k \in Keys |-> Resolve(ctxArt[c][k])],
           cfg |-> [k \in Keys |-> Resolve(ctxCfg[c][k])]]

\* The Executor at rest (the state the other specifications keep it in).
ExIdle ==
    /\ recipe = <<>>
    /\ step_index = 0
    /\ exPc = "done"
    /\ constructed = <<>>
    /\ started = <<>>
    /\ completed = <<>>
    /\ exErr = [kind |-> "none", index |-> 0]
    /\ exCtx = <<>>
    /\ exMsg = [text |-> "", type |-> "", index |-> 0]

\* No parallel step (the state the other specifications keep it in).
ParIdle ==
    /\ step_count = 0
    /\ subKind = <<>>
    /\ max_concurrency = 0
    /\ delay = 0
    /\ task = <<>>
    /\ sem = 0
    /\ pending_idx = 0
    /\ launcher = "done"
    /\ stop_launching = FALSE
    /\ parPc = "returned"
    /\ idx = 0
    /\ results = <<>>
    /\ gathered = 0
    /\ inflight_exc = -1
    /\ parOut = [kind |-> "returned", index |-> -1]
    /\ pctx = <<>>
    /\ taskCtx = <<>>
    /\ firstFailed = -1

\* No loop step (the state the other specifications keep it in).
LoopIdle ==
    /\ items_is_list = TRUE
    /\ total_items = 0
    /\ iterFails = <<>>
    /\ rebinds = FALSE
    /\ fail_fast = TRUE
    /\ loop_conc = 1
    /\ loop_delay = 0
    /\ iter = <<>>
    /\ iterStarted = <<>>
    /\ itemCtx = <<>>
    /\ loop_exc = "none"
    /\ items_type = "list"
    /\ item_context = <<>>
    /\ loop_sem = 0
    /\ doneOrder = <<>>
    /\ consumed = 0
    /\ loop_results = <<>>
    /\ loop_errors = <<>>
    /\ fail_fast_triggered = FALSE
    /\ completed_count = 0
    /\ loopPc = "returned"
    /\ loopIdx = 0
    /\ loopCtx = [has_result |-> FALSE, result |-> <<>>,
                  has_errors |-> FALSE, errors |-> <<>>]
    /\ in_place = FALSE
    /\ parentItems = <<>>
    /\ parentOther = <<0, 0>>
    /\ cloneOther = <<>>
    /\ cloneItems = <<>>

\* No conditional step.
CondIdle ==
    /\ cond_eval = [form |-> "bare", op |-> "", lhs |-> "null", rhs |-> ""]
    /\ cond_result = "false"
    /\ has_if_true = TRUE
    /\ has_if_false = FALSE
    /\ if_true = <<>>
    /\ if_false = <<>>
    /\ condPc = "returned"
    /\ condIdx = 0
    /\ condBuilt = {}
    /\ condRan = {}
    /\ condCtx = <<>>
    /\ condOut = "none"

\* The keys of the context an execute_recipe step may touch.
ErKeys == {"k1", "k2", "k3"}

\* No execute_recipe step.
ErIdle ==
    /\ executor_kind = "sync"
    /\ path_exists = TRUE
    /\ context_overrides = <<>>
    /\ sub_steps = <<>>
    /\ rendered_overrides = [k \in ErKeys |-> 0]
    /\ erCtx = [k \in ErKeys |-> 0]
    /\ erPc = "returned"
    /\ erIdx = 0
    /\ subRan = {}
    /\ subWrote = {}
    /\ erOut = "none"

\* The type names and the step classes of the registry model.
TypeNames == {"read_file", "parallel", "loop"}
StepClasses == {"ClassA", "ClassB"}

\* The registry before any registration: STEP_REGISTRY = {}.
RegIdle ==
    /\ STEP_REGISTRY = [n \in TypeNames |-> "none"]
    /\ first_registered = [n \in TypeNames |-> "none"]
    /\ regLog = <<>>
    /\ regOut = "none"

\* The caller has not cancelled the step.
NoCancel == cancel_requested = FALSE

\* No concurrent invocations (the state the other specifications keep them in).
ReIdle ==
    /\ re_recipe = <<>>
    /\ re_step_index = <<>>
    /\ re_pc = <<>>
    /\ re_ctx = <<>>
    /\ re_out = <<>>
    /\ re_order = <<>>

\* No recipe is being loaded (the state the other specifications keep this in).
LdIdle ==
    /\ ld_arg = "Recipe"
    /\ ld_isfile = FALSE
    /\ ld_readable = FALSE
    /\ ld_parses = FALSE
    /\ ld_doc = [has_steps |-> TRUE, steps |-> <<>>]
    /\ ld_pc = "returned"
    /\ ld_out = [class |-> "none", text |-> "", cause |-> ""]
    /\ ld_index = 0
    /\ ld_constructed = <<>>
    /\ ld_ctx = <<>>

\* No read or delete has been made.
RdIdle ==
    /\ read_key = ""
    /\ read_result = [kind |-> "none", val |-> [t |-> "none", v |-> 0]]

\* No combinator is evaluated.
LgIdle ==
    /\ logic_op = "not"
    /\ logic_args = <<>>
    /\ logic_pc = "idle"
    /\ logic_result = "none"

Live == IF cloned THEN CtxIds ELSE {"orig"}

CtxInit ==
    /\ heap = [a \in Addrs |-> <<>>]
    /\ nalloc = 0
    /\ ctxArt = [c \in CtxIds |-> EmptyMap]
    /\ ctxCfg = [c \in CtxIds |-> EmptyMap]
    /\ cloned = FALSE
    /\ target = "orig"
    /\ lastOp = "init"
    /\ nops = 0

Touch(c, op) ==
    /\ target' = c
    /\ lastOp' = op
    /\ nops' = nops + 1

\* Context.__setitem__ with a scalar value.
CtxSetScalar(c, k, n) ==
    /\ nops < MaxOps
    /\ ctxArt' = [ctxArt EXCEPT ![c][k] = IntVal(n)]
    /\ Touch(c, "set")
    /\ UNCHANGED ctxOthers
    /\ UNCHANGED <<heap, nalloc, ctxCfg, cloned>>

\* Context.__setitem__ with a new list object: the reference is stored.
CtxSetList(c, k) ==
    /\ nops < MaxOps
    /\ nalloc < MaxAddr
    /\ nalloc' = nalloc + 1
    /\ heap' = [heap EXCEPT ![nalloc + 1] = <<>>]
    /\ ctxArt' = [ctxArt EXCEPT ![c][k] = RefVal(nalloc + 1)]
    /\ Touch(c, "set")
    /\ UNCHANGED ctxOthers
    /\ UNCHANGED <<ctxCfg, cloned>>

\* Context.__delitem__: removes a present key (an absent key raises KeyError
\* and changes nothing).
CtxDel(c, k) ==
    /\ nops < MaxOps
    /\ ctxArt[c][k] # NoVal
    /\ ctxArt' = [ctxArt EXCEPT ![c][k] = NoVal]
    /\ Touch(c, "del")
    /\ UNCHANGED ctxOthers
    /\ UNCHANGED <<heap, nalloc, ctxCfg, cloned>>

\* Context.set_config(config) called with the configuration mapping of
\* instance src (any instance, the other one included): a deep copy is kept.
CtxSetConfig(c, src) ==
    /\ nops < MaxOps
    /\ LET cp == DeepCopy(ctxCfg[src], heap, nalloc) IN
        /\ cp.n <= MaxAddr
        /\ ctxCfg' = [ctxCfg EXCEPT ![c] = cp.m]
        /\ heap' = cp.h
        /\ nalloc' = cp.n
    /\ Touch(c, "set_config")
    /\ UNCHANGED ctxOthers
    /\ UNCHANGED <<ctxArt, cloned>>

\* c.get_config()[k] = value: get_config returns the mapping itself, so the
\* caller's assignment changes the configuration in place.
CtxCfgPutScalar(c, k, n) ==
    /\ nops < MaxOps
    /\ ctxCfg' = [ctxCfg EXCEPT ![c][k] = IntVal(n)]
    /\ Touch(c, "cfg_put")
    /\ UNCHANGED ctxOthers
    /\ UNCHANGED <<heap, nalloc, ctxArt, cloned>>

CtxCfgPutList(c, k) ==
    /\ nops < MaxOps
    /\ nalloc < MaxAddr
    /\ nalloc' = nalloc + 1
    /\ heap' = [heap EXCEPT ![nalloc + 1] = <<>>]
    /\ ctxCfg' = [ctxCfg EXCEPT ![c][k] = RefVal(nalloc + 1)]
    /\ Touch(c, "cfg_put")
    /\ UNCHANGED ctxOthers
    /\ UNCHANGED <<ctxArt, cloned>>

\* c[k].append(n) or c.get_config()[k].append(n): __getitem__ and get_config
\* return the stored object itself, which the caller changes in place.
CtxAppend(c, m, k, n) ==
    /\ nops < MaxOps
    /\ IsRef(m[k])
    /\ Len(heap[m[k].v]) < MaxLen
    /\ heap' = [heap EXCEPT ![m[k].v] = Append(@, n)]
    /\ Touch(c, "append")
    /\ UNCHANGED ctxOthers
    /\ UNCHANGED <<nalloc, ctxArt, ctxCfg, cloned>>

\* Context.clone: Context(artifacts=deepcopy(_artifacts), config=deepcopy(config)).
\* (The constructor deep-copies its arguments once more; the intermediate
\* copies are unreachable afterwards and are not allocated here.)
CloneArtifacts(m, h, n) == DeepCopy(m, h, n)
CloneConfig(m, h, n) == DeepCopy(m, h, n)

CtxClone ==
    /\ ~cloned
    /\ LET a == CloneArtifacts(ctxArt["orig"], heap, nalloc)
           g == CloneConfig(ctxCfg["orig"], a.h, a.n)
       IN /\ g.n <= MaxAddr
          /\ ctxArt' = [ctxArt EXCEPT !["clone"] = a.m]
          /\ ctxCfg' = [ctxCfg EXCEPT !["clone"] = g.m]
          /\ heap' = g.h
          /\ nalloc' = g.n
    /\ cloned' = TRUE
    /\ target' = "orig"
    /\ lastOp' = "clone"
    /\ UNCHANGED nops
    /\ UNCHANGED ctxOthers

CtxNext ==
    \/ \E c \in Live, k \in Keys, n \in Scalars : CtxSetScalar(c, k, n)
    \/ \E c \in Live, k \in Keys : CtxSetList(c, k)
    \/ \E c \in Live, k \in Keys : CtxDel(c, k)
    \/ \E c \in Live, src \in Live : CtxSetConfig(c, src)
    \/ \E c \in Live, k \in Keys, n \in Scalars : CtxCfgPutScalar(c, k, n)
    \/ \E c \in Live, k \in Keys : CtxCfgPutList(c, k)
    \/ \E c \in Live, k \in Keys, n \in Scalars : CtxAppend(c, ctxArt[c], k, n)
    \/ \E c \in Live, k \in Keys, n \in Scalars : CtxAppend(c, ctxCfg[c], k, n)
    \/ CtxClone

InitCtx == CtxInit /\ ExIdle /\ ParIdle /\ LoopIdle /\ CondIdle /\ ErIdle /\ RegIdle /\ NoCancel /\ ReIdle /\ LdIdle /\ RdIdle /\ LgIdle

SpecCtx == InitCtx /\ [][CtxNext]_vars

\* C2: once the clone is taken, an operation applied to one of the two
\* instances (the clone or the original) leaves the artifacts and the
\* configuration observable through the other instance unchanged.
C2_CloneIsolation ==
    [][(cloned /\ cloned') =>
         \A c \in CtxIds : (target' = c) => (Obs(Other(c))' = Obs(Other(c)))]_vars

\* C2 witness: the clone holds a list the original also held when the clone
\* was taken, the clone's list was appended to in place, and the two
\* instances now differ.
C2_Witness ==
    /\ cloned
    /\ target = "clone"
    /\ lastOp = "append"
    /\ \E k \in Keys : IsRef(ctxArt["orig"][k]) /\ IsRef(ctxArt["clone"][k])
                       /\ heap[ctxArt["clone"][k].v] # heap[ctxArt["orig"][k].v]

(***************************************************************************)
(* Executor.execute: the sequential step loop                              *)
(***************************************************************************)

\* Bound: the longest recipe.
MaxSteps == 3

\* What a step of the recipe does.  "set": registered, constructs, execute
\* writes to the context and completes.  "raise": registered, constructs,
\* execute raises.  "badconfig": registered, the constructor raises.
\* "unknown": the type is not in STEP_REGISTRY.
\* "does_not_exist": another type that is not in STEP_REGISTRY.
StepKinds == {"set", "raise", "badconfig", "unknown", "does_not_exist"}
Registered(kind) == kind \notin {"unknown", "does_not_exist"}

NoErr == [kind |-> "none", index |-> 0]
Err(kind, i) == [kind |-> kind, index |-> i]

\* Step indices are 0-based as in the code; TLA+ sequences are 1-based.
StepAt(i) == recipe[i + 1]

NoMessage == [text |-> "", type |-> "", index |-> 0]

\* (Mutant of Message: the unknown type is reported with the 1-based step
\* number the other messages use.)
MessageOneBased(kind, i) ==
    [text |-> IF kind = "unknown_step_type" THEN "Unknown step type" ELSE "Step failed",
     type |-> StepAt(i), index |-> i + 1]

\* The text of the ValueError: f"Unknown step type '{step_type}' at index
\* {step_index}. ..." or f"Step {step_index + 1} ('{step_type}') failed: {exc}".
Message(kind, i) ==
    IF kind = "unknown_step_type"
    THEN [text |-> "Unknown step type", type |-> StepAt(i), index |-> i]
    ELSE [text |-> "Step failed", type |-> StepAt(i), index |-> i + 1]
Indices == 0..(Len(recipe) - 1)
Bump(f, i) == [f EXCEPT ![i + 1] = @ + 1]

ExInit ==
    /\ recipe \in UNION {[1..n -> StepKinds] : n \in 0..MaxSteps}
    /\ step_index = 0
    /\ exPc = "loop"
    /\ constructed = [i \in 1..Len(recipe) |-> 0]
    /\ started = [i \in 1..Len(recipe) |-> 0]
    /\ completed = [i \in 1..Len(recipe) |-> 0]
    /\ exErr = NoErr
    /\ exCtx = <<>>
    /\ exMsg = NoMessage

\* (Mutant of RaiseFromLoop: the error is logged and the loop goes on.)
ContinueAfterError(kind, i) ==
    /\ exPc' = "loop"
    /\ exErr' = exErr
    /\ exMsg' = exMsg
    /\ step_index' = i + 1

\* raise ValueError(...): the exception leaves the for loop and execute.
RaiseFromLoop(kind, i) ==
    /\ exPc' = "failed"
    /\ exErr' = Err(kind, i)
    /\ exMsg' = Message(kind, i)
    /\ UNCHANGED step_index

\* The for loop is exhausted: execute returns.
ExecReturn ==
    /\ exPc = "loop"
    /\ step_index = Len(recipe)
    /\ exPc' = "done"
    /\ UNCHANGED <<recipe, step_index, constructed, started, completed, exErr, exCtx, exMsg>>
    /\ UNCHANGED exOthers

\* step_type not in STEP_REGISTRY: raise ValueError("Unknown step type ...").
ExecUnknownType ==
    /\ exPc = "loop"
    /\ step_index < Len(recipe)
    /\ ~Registered(StepAt(step_index))
    /\ RaiseFromLoop("unknown_step_type", step_index)
    /\ UNCHANGED <<recipe, constructed, started, completed, exCtx>>
    /\ UNCHANGED exOthers

\* step_class(self.logger, step_config) raises: caught by except Exception
\* and re-raised as ValueError("Step k failed").
ExecConstructorRaises ==
    /\ exPc = "loop"
    /\ step_index < Len(recipe)
    /\ StepAt(step_index) = "badconfig"
    /\ RaiseFromLoop("step_failed", step_index)
    /\ UNCHANGED <<recipe, constructed, started, completed, exCtx>>
    /\ UNCHANGED exOthers

\* The step is constructed and execute(context) is called; the result is
\* awaited.
ExecStart ==
    /\ exPc = "loop"
    /\ step_index < Len(recipe)
    /\ StepAt(step_index) \in {"set", "raise"}
    /\ constructed' = Bump(constructed, step_index)
    /\ started' = Bump(started, step_index)
    /\ exPc' = "awaiting"
    /\ UNCHANGED <<recipe, step_index, completed, exErr, exCtx, exMsg>>
    /\ UNCHANGED exOthers

\* The awaited execute completes: the step has written to the context, and
\* the loop goes on to the next step.
ExecStepCompletes ==
    /\ exPc = "awaiting"
    /\ StepAt(step_index) = "set"
    /\ completed' = Bump(completed, step_index)
    /\ exCtx' = Append(exCtx, step_index)
    /\ step_index' = step_index + 1
    /\ exPc' = "loop"
    /\ UNCHANGED <<recipe, constructed, started, exErr, exMsg>>
    /\ UNCHANGED exOthers

\* The awaited execute raises: caught by except Exception and re-raised as
\* ValueError("Step k failed").
ExecStepRaises ==
    /\ exPc = "awaiting"
    /\ StepAt(step_index) = "raise"
    /\ RaiseFromLoop("step_failed", step_index)
    /\ UNCHANGED <<recipe, constructed, started, completed, exCtx>>
    /\ UNCHANGED exOthers

ExNext ==
    \/ ExecReturn
    \/ ExecUnknownType
    \/ ExecConstructorRaises
    \/ ExecStart
    \/ ExecStepCompletes
    \/ ExecStepRaises

InitExec == ExInit /\ CtxInit /\ ParIdle /\ LoopIdle /\ CondIdle /\ ErIdle /\ RegIdle /\ NoCancel /\ ReIdle /\ LdIdle /\ RdIdle /\ LgIdle

SpecExec == InitExec /\ [][ExNext]_vars

\* The first index whose step fails (Len(recipe) when none does).
FailingIndices == {i \in Indices : StepAt(i) # "set"}
FirstFailing == IF FailingIndices = {} THEN Len(recipe)
                ELSE CHOOSE i \in FailingIndices : \A j \in FailingIndices : i <= j

\* C1: steps run strictly in index order, each at most once, and step n+1
\* is not constructed before step n has completed; when step k fails,
\* exactly steps 0..k-1 have been constructed and have completed, once each,
\* no step after k has been constructed or executed, and execute has raised
\* to its caller; a recipe with a failing step never completes normally.
C1_SequentialAbort ==
    /\ \A i \in Indices :
          /\ constructed[i + 1] <= 1
          /\ started[i + 1] <= constructed[i + 1]
          /\ completed[i + 1] <= started[i + 1]
          /\ (i > 0 /\ constructed[i + 1] > 0) => completed[i] = 1
    /\ exCtx = [i \in 1..Len(exCtx) |-> i - 1]
    /\ exPc = "failed" =>
          /\ exErr # NoErr
          /\ exErr.index = FirstFailing
          /\ \A i \in Indices :
                /\ i < exErr.index => (constructed[i + 1] = 1 /\ completed[i + 1] = 1)
                /\ i > exErr.index => (constructed[i + 1] = 0 /\ started[i + 1] = 0)
                /\ completed[exErr.index + 1] = 0
    /\ exPc = "done" => (FailingIndices = {} /\ exErr = NoErr)

\* C1 witness: a three-step recipe failed at its middle step, after the
\* first step completed.
C1_Witness ==
    /\ exPc = "failed"
    /\ Len(recipe) = 3
    /\ exErr.index = 1
    /\ completed[1] = 1

\* The indices whose step type has no registry entry.
UnknownIndices == {i \in Indices : ~Registered(StepAt(i))}

\* C19: a recipe whose step at index k has an unregistered type, the steps
\* before it succeeding, fails at step k with the unknown-step-type error
\* naming that type and the index k; steps 0..k-1 have run by then, and step
\* k and the steps after it are never constructed.
C19_UnknownStepType ==
    \A k \in UnknownIndices :
        (FirstFailing = k) =>
            /\ exPc # "done"
            /\ \A i \in Indices : i >= k => (constructed[i + 1] = 0 /\ started[i + 1] = 0)
            /\ exPc = "failed" =>
                 /\ exErr = Err("unknown_step_type", k)
                 /\ exMsg = [text |-> "Unknown step type", type |-> StepAt(k), index |-> k]
                 /\ \A i \in Indices : i < k => completed[i + 1] = 1

\* C19 witness: a recipe failed at its third step, of type does_not_exist,
\* after the first two steps completed.
C19_Witness ==
    /\ exPc = "failed"
    /\ recipe = <<"set", "set", "does_not_exist">>
    /\ exMsg.type = "does_not_exist"
    /\ exMsg.index = 2
    /\ exCtx = <<0, 1>>

(***************************************************************************)
(* ParallelStep.execute                                                    *)
(***************************************************************************)

\* Bounds: the most substeps, and the largest max_concurrency.
MaxSub == 3
MaxConc == 2

\* Substep indices are 0-based as in the code.
Subs == 0..(step_count - 1)
\* all_tasks: the launcher appends task pending_idx and increments it.
Launched == 0..(pending_idx - 1)
TaskOf(i) == task[i + 1]
\* A task that is done: _run_step returned None ("ok") or an exception
\* ("err"), an exception was raised out of _run_step ("exc"), or the task
\* was cancelled.
Finished(st) == st \in {"ok", "err", "exc", "cancelled"}
\* The substeps between acquiring their slot and the end of their task.
InFlight == {i \in Subs : TaskOf(i) = "running"}
HasSemaphore == max_concurrency > 0

\* The content of a context: the writes made to it, in order; the parent
\* context holds what the caller put there.
ParentCtx == <<-1>>

NoOutcome == [kind |-> "none", index |-> -1]
Returned == [kind |-> "returned", index |-> -1]
SubstepError(i) == [kind |-> "substep_error", index |-> i]
CancelledError == [kind |-> "cancelled_error", index |-> -1]
ParEnded == parPc \in {"returned", "raised"}

\* The state when execute is called on substeps of the given kinds.
ParBegin(kinds) ==
    /\ step_count \in 0..MaxSub
    /\ subKind \in [1..step_count -> kinds]
    /\ max_concurrency \in 0..MaxConc
    /\ delay \in {0, 1}
    /\ task = [i \in 1..step_count |-> "unlaunched"]
    /\ sem = 0
    /\ pending_idx = 0
    /\ launcher = "none"
    /\ stop_launching = FALSE
    /\ parPc = "start"
    /\ idx = 0
    /\ results = [i \in 1..step_count |-> "none"]
    /\ gathered = 0
    /\ inflight_exc = -1
    /\ parOut = NoOutcome
    /\ pctx = [c \in 1..(step_count + 1) |-> IF c = 1 THEN ParentCtx ELSE <<>>]
    /\ taskCtx = [i \in 1..step_count |-> -1]
    /\ firstFailed = -1

\* Substeps whose step can be constructed.
ParInit == ParBegin({"ok", "fail"})

\* Substeps of which some cannot be started.
ParInitCannotStart == ParBegin({"ok", "fail", "unknown", "reject"})

\* (Mutant of SemAcquire: the slot is not taken.)
SemAcquireNothing(v) == v

\* async with semaphore: __aenter__ takes a slot, __aexit__ gives it back.
SemAcquire(v) == v - 1
SemRelease(v) == v + 1

\* (Mutant of SubstepContext: the step is executed with the parent context.)
SubstepParentContext(i) == 0

\* context_clone = context.clone(): substep i is given its own clone.
SubstepContext(i) == i + 1

\* task.cancel(): a task that has not finished ends cancelled.
CancelTask(st) == IF Finished(st) \/ st = "unlaunched" THEN st ELSE "cancelled"
CancelLauncher(l) == IF l \in {"new", "sleep"} THEN "cancelled" ELSE l

\* if not substep_defs: return
ParNoSubsteps ==
    /\ parPc = "start"
    /\ step_count = 0
    /\ parPc' = "returned"
    /\ parOut' = Returned
    /\ UNCHANGED <<step_count, subKind, max_concurrency, delay, task, sem, pending_idx,
                   launcher, stop_launching, idx, results, gathered, inflight_exc,
                   pctx, taskCtx, firstFailed>>
    /\ UNCHANGED parOthers

\* The semaphore and the launcher task are created and the for loop is
\* entered: all_tasks is still empty (the launcher has not run yet), so
\* execute suspends in asyncio.sleep(0.01).
ParStart ==
    /\ parPc = "start"
    /\ step_count > 0
    /\ sem' = max_concurrency
    /\ launcher' = "new"
    /\ parPc' = "sleep"
    /\ UNCHANGED <<step_count, subKind, max_concurrency, delay, task, pending_idx,
                   stop_launching, idx, results, gathered, inflight_exc, parOut,
                   pctx, taskCtx, firstFailed>>
    /\ UNCHANGED parOthers

\* The event loop runs ready callbacks in the order they were scheduled, and
\* a new task is ready from its creation: whoever is resumed in a later turn
\* of the loop finds that every task created before that turn has run its
\* first step.  Only the task created last (in the same turn) may not have.
FirstStepsDone(last) == \A i \in Launched : TaskOf(i) = "created" => i = last

\* substep_launcher, one turn of its while loop: create the next task, then
\* await asyncio.sleep(delay).
LauncherLaunch ==
    /\ launcher \in {"new", "sleep"}
    /\ FirstStepsDone(-1)
    /\ pending_idx < step_count
    /\ ~stop_launching
    /\ task' = [task EXCEPT ![pending_idx + 1] = "created"]
    /\ pending_idx' = pending_idx + 1
    /\ launcher' = "sleep"
    /\ UNCHANGED <<step_count, subKind, max_concurrency, delay, sem, stop_launching,
                   parPc, idx, results, gathered, inflight_exc, parOut, pctx, taskCtx,
                   firstFailed>>
    /\ UNCHANGED parOthers

\* substep_launcher leaves its while loop.
LauncherExit ==
    /\ launcher \in {"new", "sleep"}
    /\ FirstStepsDone(-1)
    /\ (pending_idx >= step_count \/ stop_launching)
    /\ launcher' = "done"
    /\ UNCHANGED <<step_count, subKind, max_concurrency, delay, task, sem, pending_idx,
                   stop_launching, parPc, idx, results, gathered, inflight_exc, parOut,
                   pctx, taskCtx, firstFailed>>
    /\ UNCHANGED parOthers

\* The task of substep i finds no free slot and waits for the semaphore.
SubstepBlock(i) ==
    /\ TaskOf(i) = "created"
    /\ HasSemaphore /\ sem = 0
    /\ task' = [task EXCEPT ![i + 1] = "waiting"]
    /\ UNCHANGED <<step_count, subKind, max_concurrency, delay, sem, pending_idx,
                   launcher, stop_launching, parPc, idx, results, gathered,
                   inflight_exc, parOut, pctx, taskCtx, firstFailed>>
    /\ UNCHANGED parOthers

\* run_substep takes a slot and _run_step clones the context, constructs the
\* step and calls execute, which writes to the context it was given and
\* suspends at its first await.
SubstepStart(i) ==
    /\ TaskOf(i) \in {"created", "waiting"}
    /\ subKind[i + 1] \in {"ok", "fail"}
    /\ HasSemaphore => sem > 0
    /\ sem' = IF HasSemaphore THEN SemAcquire(sem) ELSE sem
    /\ task' = [task EXCEPT ![i + 1] = "running"]
    /\ LET c == SubstepContext(i)
           cl == IF c = 0 THEN pctx ELSE [pctx EXCEPT ![c + 1] = pctx[1]]
       IN /\ taskCtx' = [taskCtx EXCEPT ![i + 1] = c]
          /\ pctx' = [cl EXCEPT ![c + 1] = Append(@, i)]
    /\ UNCHANGED <<step_count, subKind, max_concurrency, delay, pending_idx, launcher,
                   stop_launching, parPc, idx, results, gathered, inflight_exc, parOut,
                   firstFailed>>
    /\ UNCHANGED parOthers

\* The awaited execute of substep i completes: _run_step returns None.
SubstepCompletes(i) ==
    /\ TaskOf(i) = "running"
    /\ subKind[i + 1] = "ok"
    /\ task' = [task EXCEPT ![i + 1] = "ok"]
    /\ sem' = IF HasSemaphore THEN SemRelease(sem) ELSE sem
    /\ UNCHANGED <<step_count, subKind, max_concurrency, delay, pending_idx, launcher,
                   stop_launching, parPc, idx, results, gathered, inflight_exc, parOut,
                   pctx, taskCtx, firstFailed>>
    /\ UNCHANGED parOthers

\* The awaited execute of substep i raises: _run_step returns the exception.
SubstepRaises(i) ==
    /\ TaskOf(i) = "running"
    /\ subKind[i + 1] = "fail"
    /\ task' = [task EXCEPT ![i + 1] = "err"]
    /\ sem' = IF HasSemaphore THEN SemRelease(sem) ELSE sem
    /\ firstFailed' = IF firstFailed = -1 THEN i ELSE firstFailed
    /\ UNCHANGED <<step_count, subKind, max_concurrency, delay, pending_idx, launcher,
                   stop_launching, parPc, idx, results, gathered, inflight_exc, parOut,
                   pctx, taskCtx>>
    /\ UNCHANGED parOthers

\* run_substep takes a slot and _run_step clones the context and renders the
\* definition; step_type is not in STEP_REGISTRY: _run_step returns a
\* ValueError and the slot is given back.  No step is constructed.
SubstepUnknownType(i) ==
    /\ TaskOf(i) \in {"created", "waiting"}
    /\ subKind[i + 1] = "unknown"
    /\ HasSemaphore => sem > 0
    /\ task' = [task EXCEPT ![i + 1] = "err"]
    /\ pctx' = [pctx EXCEPT ![SubstepContext(i) + 1] = pctx[1]]
    /\ firstFailed' = IF firstFailed = -1 THEN i ELSE firstFailed
    /\ UNCHANGED <<step_count, subKind, max_concurrency, delay, sem, pending_idx,
                   launcher, stop_launching, parPc, idx, results, gathered,
                   inflight_exc, parOut, taskCtx>>
    /\ UNCHANGED parOthers

\* run_substep takes a slot and _run_step clones the context; _render_deep or
\* StepCls(self.logger, step_cfg) raises.  Both are outside the try of
\* _run_step: the exception is raised out of the task (the slot is given
\* back by async with).
SubstepRejected(i) ==
    /\ TaskOf(i) \in {"created", "waiting"}
    /\ subKind[i + 1] = "reject"
    /\ HasSemaphore => sem > 0
    /\ task' = [task EXCEPT ![i + 1] = "exc"]
    /\ pctx' = [pctx EXCEPT ![SubstepContext(i) + 1] = pctx[1]]
    /\ firstFailed' = IF firstFailed = -1 THEN i ELSE firstFailed
    /\ UNCHANGED <<step_count, subKind, max_concurrency, delay, sem, pending_idx,
                   launcher, stop_launching, parPc, idx, results, gathered,
                   inflight_exc, parOut, taskCtx>>
    /\ UNCHANGED parOthers

\* The for loop from index i up to the point where execute next suspends or
\* leaves the loop.  Awaiting a finished task does not suspend: a None result
\* goes on to the next index (so does a cancelled task: except CancelledError:
\* continue), an exception result starts the fail-fast.  (stop_launching is
\* only set on the way out of the loop, so the loop never sees it set.)
RECURSIVE MainRun(_)
MainRun(i) ==
    IF i = step_count THEN [pc |-> "gather", idx |-> i]
    ELSE IF i >= pending_idx THEN [pc |-> "sleep", idx |-> i]
    ELSE IF TaskOf(i) \in {"ok", "cancelled"} THEN MainRun(i + 1)
    ELSE IF TaskOf(i) = "err" THEN [pc |-> "failfast", idx |-> i]
    ELSE IF TaskOf(i) = "exc" THEN [pc |-> "taskraise", idx |-> i]
    ELSE [pc |-> "await", idx |-> i]

\* finally: launcher_task.cancel(); await launcher_task (inside try/except
\* Exception: pass).  Awaiting a cancelled task raises asyncio.CancelledError,
\* a BaseException that except Exception does not catch: it replaces the
\* exception being raised, if any.  Otherwise the exception being raised
\* (exc, -1 for none) continues, or execute returns.
Finally(l, exc) ==
    IF CancelLauncher(l) = "cancelled" THEN CancelledError
    ELSE IF exc >= 0 THEN SubstepError(exc)
    ELSE Returned

EndPc(out) == IF out = Returned THEN "returned" ELSE "raised"

\* execute runs on from index i of its for loop until it suspends or ends.
MainProceed(i) ==
    LET r == MainRun(i) IN
    /\ idx' = r.idx
    /\ CASE r.pc \in {"sleep", "await"} ->
            \* if idx >= len(all_tasks): await asyncio.sleep(0.01), or
            \* result = await task on a task that has not finished
            /\ parPc' = r.pc
            /\ UNCHANGED <<task, sem, launcher, stop_launching, results, gathered,
                           inflight_exc, parOut>>
         [] r.pc = "gather" /\ pending_idx > 0 ->
            \* await asyncio.gather(*all_tasks, return_exceptions=True) on
            \* the tasks created so far
            /\ parPc' = "gather"
            /\ gathered' = pending_idx
            /\ UNCHANGED <<task, sem, launcher, stop_launching, results,
                           inflight_exc, parOut>>
         [] r.pc = "gather" /\ pending_idx = 0 ->
            \* gather of no task is done at once: straight into finally
            /\ gathered' = 0
            /\ launcher' = CancelLauncher(launcher)
            /\ parOut' = Finally(launcher, -1)
            /\ parPc' = EndPc(parOut')
            /\ UNCHANGED <<task, sem, stop_launching, results, inflight_exc>>
         [] r.pc = "failfast" ->
            \* stop_launching = True; the launcher and the tasks
            \* all_tasks[idx + 1:] are cancelled (a cancelled task that held a
            \* slot gives it back); raise result: through except Exception
            \* (re-raise) into finally
            /\ results' = [results EXCEPT ![r.idx + 1] = "err"]
            /\ stop_launching' = TRUE
            /\ task' = [j \in 1..step_count |->
                          IF j - 1 > r.idx /\ j - 1 < pending_idx
                          THEN CancelTask(task[j]) ELSE task[j]]
            /\ sem' = IF HasSemaphore
                      THEN sem + Cardinality({k \in InFlight : k > r.idx})
                      ELSE sem
            /\ inflight_exc' = r.idx
            /\ launcher' = CancelLauncher(launcher)
            /\ parOut' = Finally(launcher, r.idx)
            /\ parPc' = EndPc(parOut')
            /\ UNCHANGED gathered
         [] r.pc = "taskraise" ->
            \* result = await task raises the exception the task ended with:
            \* it is not a CancelledError, so it leaves the for loop through
            \* except Exception (re-raise) into finally; stop_launching is
            \* not set and no task is cancelled
            /\ inflight_exc' = r.idx
            /\ launcher' = CancelLauncher(launcher)
            /\ parOut' = Finally(launcher, r.idx)
            /\ parPc' = EndPc(parOut')
            /\ UNCHANGED <<task, sem, stop_launching, results, gathered>>

\* The 10 ms sleep is over.  The launcher task was ready before the sleep
\* began, so it has run.  With delay = 0 the launcher only yields between
\* launches (asyncio.sleep(0)) and stays scheduled ahead of the timer: its
\* turns are over before 10 ms have passed.  With a positive delay either
\* timer can fire first (delay may be shorter or longer than 10 ms, and a
\* substep may take any time).  task = all_tasks[idx] if idx < len(all_tasks)
\* else None; a None task is skipped (continue).
MainWake ==
    /\ parPc = "sleep"
    /\ launcher # "new"
    /\ delay = 0 => launcher = "done"
    /\ FirstStepsDone(pending_idx - 1)
    /\ MainProceed(IF idx < pending_idx THEN idx ELSE idx + 1)
    /\ UNCHANGED <<step_count, subKind, max_concurrency, delay, pending_idx, pctx,
                   taskCtx, firstFailed>>
    /\ UNCHANGED parOthers

\* The task execute awaits has finished: result = await task returns.
MainResume ==
    /\ parPc = "await"
    /\ Finished(TaskOf(idx))
    /\ FirstStepsDone(pending_idx - 1)
    /\ MainProceed(idx)
    /\ UNCHANGED <<step_count, subKind, max_concurrency, delay, pending_idx, pctx,
                   taskCtx, firstFailed>>
    /\ UNCHANGED parOthers

\* asyncio.gather returns when the tasks it was given have finished; their
\* results are dropped (return_exceptions=True).  Then the finally block.
MainGatherDone ==
    /\ parPc = "gather"
    /\ \A i \in 0..(gathered - 1) : Finished(TaskOf(i))
    /\ FirstStepsDone(pending_idx - 1)
    /\ launcher' = CancelLauncher(launcher)
    /\ parOut' = Finally(launcher, -1)
    /\ parPc' = EndPc(parOut')
    /\ UNCHANGED <<step_count, subKind, max_concurrency, delay, task, sem, pending_idx,
                   stop_launching, idx, results, gathered, inflight_exc, pctx, taskCtx,
                   firstFailed>>
    /\ UNCHANGED parOthers

ParNext ==
    \/ ParNoSubsteps
    \/ ParStart
    \/ LauncherLaunch
    \/ LauncherExit
    \/ \E i \in Launched : SubstepBlock(i)
    \/ \E i \in Launched : SubstepStart(i)
    \/ \E i \in Launched : SubstepCompletes(i)
    \/ \E i \in Launched : SubstepRaises(i)
    \/ MainWake
    \/ MainResume
    \/ MainGatherDone

InitPar == ParInit /\ CtxInit /\ ExIdle /\ LoopIdle /\ CondIdle /\ ErIdle /\ RegIdle /\ NoCancel /\ ReIdle /\ LdIdle /\ RdIdle /\ LgIdle

SpecPar == InitPar /\ [][ParNext]_vars

\* The parallel step on substeps of which some cannot be started.
ParCannotStartNext ==
    \/ ParNext
    \/ \E i \in Launched : SubstepUnknownType(i)
    \/ \E i \in Launched : SubstepRejected(i)

InitParCannotStart == ParInitCannotStart /\ CtxInit /\ ExIdle /\ LoopIdle /\ CondIdle /\ ErIdle /\ RegIdle /\ NoCancel /\ ReIdle /\ LdIdle /\ RdIdle /\ LgIdle

SpecParCannotStart == InitParCannotStart /\ [][ParCannotStartNext]_vars

\* C3: with max_concurrency = M > 0 at most M substeps are in flight at any
\* time, and the free slots are exactly those no in-flight substep holds: a
\* slot comes back only when its substep completes, fails or is cancelled.
C3_ConcurrencyBound ==
    (HasSemaphore /\ launcher # "none") =>
        /\ Cardinality(InFlight) <= max_concurrency
        /\ sem = max_concurrency - Cardinality(InFlight)

\* C3 witness: two substeps in flight under max_concurrency = 2 while a third
\* waits for a slot.
C3_Witness ==
    /\ max_concurrency = 2
    /\ Cardinality(InFlight) = 2
    /\ \E i \in Subs : TaskOf(i) = "waiting"

\* C4 (as claimed): once a substep has failed, no substep is launched and no
\* sibling completes any more.
C4_FailFastCancelsSiblings ==
    [][(\E i \in Subs : TaskOf(i) = "err") =>
         \A j \in Subs :
            /\ (task'[j + 1] = "ok") => (task[j + 1] = "ok")
            /\ (task[j + 1] = "unlaunched") => (task'[j + 1] = "unlaunched")]_vars

\* C5 (as claimed): when the step ends after a substep has failed, it ends
\* raising the error of the substep that failed first in time.
C5_FailsWithFirstError ==
    [][(~ParEnded /\ ParEnded' /\ firstFailed' >= 0) =>
         parOut' = SubstepError(firstFailed')]_vars

\* C6 (as claimed): when no substep fails and the step ends, it returns
\* normally and every substep has been launched and has completed.
C6_AllCompleteOnReturn ==
    [][(~ParEnded /\ ParEnded' /\ \A i \in Subs : subKind[i + 1] = "ok") =>
         /\ parOut' = Returned
         /\ \A i \in Subs : task'[i + 1] = "ok"]_vars

\* C7: the parent context is never changed by a parallel step, during it or
\* after it, whether it returns or raises: every substep is executed with
\* its own clone and with no other context.
C7_ParentUnchanged ==
    /\ pctx[1] = ParentCtx
    /\ \A i \in Subs : taskCtx[i + 1] \in {-1, i + 1}

\* C7 witness: the step has failed after two substeps wrote to their clones.
C7_Witness ==
    /\ parPc = "raised"
    /\ parOut.kind = "substep_error"
    /\ \E i, j \in Subs : i # j /\ pctx[i + 2] = Append(ParentCtx, i)
                                /\ pctx[j + 2] = Append(ParentCtx, j)

(***************************************************************************)
(* LoopStep.execute                                                        *)
(***************************************************************************)

\* Bounds: the most items, and the largest max_concurrency of a loop.
MaxItems == 3
MaxLoopConc == 2

\* items_list: the item at input index (or, for a dict, at the key of
\* position) k, 0-based, has the value k + 1: the items [1, 2, 3].
Items == 0..(total_items - 1)
ItemAt(k) == k + 1
IterOf(k) == iter[k + 1]
Sequential == loop_conc = 1
\* (Mutant of LoopHasSemaphore: no semaphore is ever created.)
LoopNoSemaphore == FALSE
LoopHasSemaphore == loop_conc > 0

\* str(exc) of the ValueError Executor.execute raises: never empty.
ErrorMessage(k) == "step failed"

\* (Mutant of IterationResult: the result is the item the iteration was given.)
IterationResultInput(k) == ItemAt(k)

\* result = item_context.get(item_key, item): the value bound to item_key in
\* the clone when the substeps have completed.
IterationResult(k) == itemCtx[k + 1]

\* The parent context holds nothing under result_key and result_key__errors.
NoEntries == [has_result |-> FALSE, result |-> <<>>,
              has_errors |-> FALSE, errors |-> <<>>]

\* The parent context holds what an earlier loop step with the same
\* result_key left: a result and a record of a failed item.
StaleEntries == [has_result |-> TRUE, result |-> <<[key |-> 0, val |-> 7]>>,
                 has_errors |-> TRUE,
                 errors |-> <<[index |-> 0, error |-> "earlier"]>>]

\* The state when execute is called on a parent context whose entries under
\* result_key and result_key__errors are entries.
LoopStart(entries) ==
    /\ items_is_list \in BOOLEAN
    /\ total_items \in 0..MaxItems
    /\ iterFails \in [1..total_items -> BOOLEAN]
    /\ rebinds \in BOOLEAN
    /\ fail_fast \in BOOLEAN
    /\ loop_conc \in 0..MaxLoopConc
    /\ loop_delay \in {0, 1}
    /\ iter = [k \in 1..total_items |-> "unlaunched"]
    /\ iterStarted = [k \in 1..total_items |-> 0]
    /\ itemCtx = [k \in 1..total_items |-> 0]
    /\ loop_exc = "none"
    /\ items_type \in (IF items_is_list THEN {"list"} ELSE {"dict", "int", "NoneType"})
    /\ item_context = [k \in 1..total_items |-> -1]
    /\ loop_sem = 0
    /\ doneOrder = <<>>
    /\ consumed = 0
    /\ loop_results = <<>>
    /\ loop_errors = <<>>
    /\ fail_fast_triggered = FALSE
    /\ completed_count = 0
    /\ loopPc = "start"
    /\ loopIdx = 0
    /\ loopCtx = entries
    /\ in_place \in (IF rebinds THEN {FALSE} ELSE BOOLEAN)
    /\ parentItems = [k \in 1..total_items |-> ItemAt(k - 1)]
    /\ parentOther = <<0, 0>>
    /\ cloneOther = [k \in 1..total_items |-> <<0, 0>>]
    /\ cloneItems = [k \in 1..total_items |-> <<>>]

LoopInit == LoopStart(NoEntries)

LoopInitStale == LoopStart(StaleEntries)

\* The parent context outside result_key and result_key__errors, which no
\* statement of LoopStep.execute assigns.
LoopFrame == <<in_place, parentOther>>

\* (Mutant of ItemsTypeOk: the type of the items is not checked.)
ItemsTypeUnchecked(t) == TRUE

\* isinstance(items_obj, (list, dict)), for an items_obj that is not None.
ItemsTypeOk(t) == t \in {"list", "dict"}

\* items_obj is None, or is not a list or a dict: raise ValueError, before
\* anything else is done.
LoopItemsError ==
    /\ loopPc = "start"
    /\ items_type = "NoneType" \/ ~ItemsTypeOk(items_type)
    /\ loopPc' = "raised"
    /\ loop_exc' = IF items_type = "NoneType"
                   THEN "ValueError: Items collection not found in context"
                   ELSE "ValueError: Items collection must be a list or dict"
    /\ UNCHANGED <<items_is_list, total_items, items_type, item_context, iterFails,
                   rebinds, fail_fast, loop_conc,
                   loop_delay, iter, iterStarted, itemCtx, loop_sem, doneOrder,
                   consumed, loop_results, loop_errors, fail_fast_triggered,
                   completed_count, loopIdx, loopCtx>>
    /\ UNCHANGED <<LoopFrame, parentItems, cloneOther, cloneItems>>
    /\ UNCHANGED loopOthers

\* if total_items == 0: context[result_key] = [] or {}; return
LoopEmpty ==
    /\ loopPc = "start"
    /\ items_type # "NoneType" /\ ItemsTypeOk(items_type)
    /\ total_items = 0
    /\ loopCtx' = [loopCtx EXCEPT !.has_result = TRUE, !.result = <<>>]
    /\ loopPc' = "returned"
    /\ UNCHANGED <<items_is_list, total_items, loop_exc, items_type, item_context,
                   iterFails, rebinds, fail_fast, loop_conc,
                   loop_delay, iter, iterStarted, itemCtx, loop_sem, doneOrder,
                   consumed, loop_results, loop_errors, fail_fast_triggered,
                   completed_count, loopIdx>>
    /\ UNCHANGED <<LoopFrame, parentItems, cloneOther, cloneItems>>
    /\ UNCHANGED loopOthers

\* results and errors are created empty, the semaphore is created, and
\* run_sequential (max_concurrency == 1) or run_parallel is entered.
LoopBegin ==
    /\ loopPc = "start"
    /\ items_type # "NoneType" /\ ItemsTypeOk(items_type)
    /\ total_items > 0
    /\ loop_sem' = loop_conc
    /\ loopPc' = IF Sequential THEN "seq" ELSE "launching"
    /\ UNCHANGED <<items_is_list, total_items, loop_exc, items_type, item_context,
                   iterFails, rebinds, fail_fast, loop_conc,
                   loop_delay, iter, iterStarted, itemCtx, doneOrder, consumed,
                   loop_results, loop_errors, fail_fast_triggered, completed_count,
                   loopIdx, loopCtx>>
    /\ UNCHANGED <<LoopFrame, parentItems, cloneOther, cloneItems>>
    /\ UNCHANGED loopOthers

\* (Mutant of ItemContext: the substeps of the item run on the parent context.)
ItemParentContext(k) == 0

\* item_context = context.clone(): the Context the substeps of item k run on
\* is a new instance, made for this call of process_single_item.
ItemContext(k) == k + 1

\* process_single_item up to its await: the parent context is cloned and
\* item_key is bound to the item in the clone.
\* The clone is a deep copy of the parent; item_context[item_key] = item then
\* binds the element of the parent's collection itself, not a copy of it, so
\* the value seen through item_key is the content of the parent's element.
EnterItem(k) ==
    /\ iter' = [iter EXCEPT ![k + 1] = "running"]
    /\ item_context' = [item_context EXCEPT ![k + 1] = ItemContext(k)]
    /\ iterStarted' = [iterStarted EXCEPT ![k + 1] = @ + 1]
    /\ itemCtx' = [itemCtx EXCEPT ![k + 1] = parentItems[k + 1]]
    /\ cloneOther' = [cloneOther EXCEPT ![k + 1] = parentOther]
    /\ cloneItems' = [cloneItems EXCEPT ![k + 1] = parentItems]

\* run_sequential: the next item is processed (await process_single_item).
SeqStart ==
    /\ loopPc = "seq"
    /\ loopIdx < total_items
    /\ ~fail_fast_triggered
    /\ EnterItem(loopIdx)
    /\ loopPc' = "seq_await"
    /\ UNCHANGED <<items_is_list, total_items, loop_exc, items_type,
                   iterFails, rebinds, fail_fast, loop_conc,
                   loop_delay, loop_sem, doneOrder, consumed, loop_results, loop_errors,
                   fail_fast_triggered, completed_count, loopIdx, loopCtx>>
    /\ UNCHANGED <<LoopFrame, parentItems>>
    /\ UNCHANGED loopOthers

\* (Mutant of RecordOutcome: a failed item is recorded as an error and its
\* None result is appended to the results as well.)
RecordOutcomeBoth(res, errs, k) ==
    IF iterFails[k + 1]
    THEN [results |-> Append(res, [key |-> k, val |-> 0]),
          errors |-> Append(errs, [index |-> k, error |-> ErrorMessage(k)])]
    ELSE [results |-> Append(res, [key |-> k, val |-> IterationResult(k)]),
          errors |-> errs]

\* idx, res, err = the outcome of the iteration of item k.  if err: the
\* record {"index": idx, "error": err} is appended to errors (a dict:
\* errors[idx] = {"error": err}); else res is appended to results (a dict:
\* results[idx] = res).  An entry of results is kept with the key it was
\* stored at; for a list the key is not stored, only the position is.
RecordOutcome(res, errs, k) ==
    IF iterFails[k + 1]
    THEN [results |-> res,
          errors |-> Append(errs, [index |-> k, error |-> ErrorMessage(k)])]
    ELSE [results |-> Append(res, [key |-> k, val |-> IterationResult(k)]),
          errors |-> errs]

\* The rest of one turn of the collecting loop, after the outcome of item k
\* was recorded: with fail_fast an error sets fail_fast_triggered and leaves
\* the turn before completed_count is incremented.
AfterOutcome(k) ==
    LET o == RecordOutcome(loop_results, loop_errors, k) IN
    /\ loop_results' = o.results
    /\ loop_errors' = o.errors
    /\ IF iterFails[k + 1] /\ fail_fast
       THEN fail_fast_triggered' = TRUE /\ UNCHANGED completed_count
       ELSE completed_count' = completed_count + 1 /\ UNCHANGED fail_fast_triggered

\* run_sequential: process_single_item has returned for the current item.
\* On an error with fail_fast the for loop is left (break).
SeqCollect ==
    /\ loopPc = "seq_await"
    /\ IterOf(loopIdx) = "finished"
    /\ AfterOutcome(loopIdx)
    /\ loopPc' = IF iterFails[loopIdx + 1] /\ fail_fast THEN "writeback" ELSE "seq"
    /\ loopIdx' = IF iterFails[loopIdx + 1] /\ fail_fast THEN loopIdx ELSE loopIdx + 1
    /\ UNCHANGED <<items_is_list, total_items, loop_exc, items_type, item_context,
                   iterFails, rebinds, fail_fast, loop_conc,
                   loop_delay, iter, iterStarted, itemCtx, loop_sem, doneOrder,
                   consumed, loopCtx>>
    /\ UNCHANGED <<LoopFrame, parentItems, cloneOther, cloneItems>>
    /\ UNCHANGED loopOthers

\* run_sequential: the for loop is exhausted.
SeqExhausted ==
    /\ loopPc = "seq"
    /\ loopIdx = total_items
    /\ loopPc' = "writeback"
    /\ UNCHANGED <<items_is_list, total_items, loop_exc, items_type, item_context,
                   iterFails, rebinds, fail_fast, loop_conc,
                   loop_delay, iter, iterStarted, itemCtx, loop_sem, doneOrder,
                   consumed, loop_results, loop_errors, fail_fast_triggered,
                   completed_count, loopIdx, loopCtx>>
    /\ UNCHANGED <<LoopFrame, parentItems, cloneOther, cloneItems>>
    /\ UNCHANGED loopOthers

\* run_parallel with delay = 0: the for loop creates a task per item without
\* suspending; then the as_completed loop is entered.
LoopLaunchAll ==
    /\ loopPc = "launching"
    /\ loop_delay = 0
    /\ ~fail_fast_triggered
    /\ iter' = [k \in 1..total_items |-> "created"]
    /\ loopIdx' = total_items
    /\ loopPc' = "collecting"
    /\ UNCHANGED <<items_is_list, total_items, loop_exc, items_type, item_context,
                   iterFails, rebinds, fail_fast, loop_conc,
                   loop_delay, iterStarted, itemCtx, loop_sem, doneOrder, consumed,
                   loop_results, loop_errors, fail_fast_triggered, completed_count,
                   loopCtx>>
    /\ UNCHANGED <<LoopFrame, parentItems, cloneOther, cloneItems>>
    /\ UNCHANGED loopOthers

\* run_parallel with a positive delay: the task of the next item is created;
\* unless it is the last, asyncio.sleep(delay) follows.
LoopLaunchNext ==
    /\ loopPc = "launching"
    /\ loop_delay > 0
    /\ ~fail_fast_triggered
    /\ iter' = [iter EXCEPT ![loopIdx + 1] = "created"]
    /\ loopIdx' = loopIdx + 1
    /\ loopPc' = IF loopIdx + 1 < total_items THEN "launching" ELSE "collecting"
    /\ UNCHANGED <<items_is_list, total_items, loop_exc, items_type, item_context,
                   iterFails, rebinds, fail_fast, loop_conc,
                   loop_delay, iterStarted, itemCtx, loop_sem, doneOrder, consumed,
                   loop_results, loop_errors, fail_fast_triggered, completed_count,
                   loopCtx>>
    /\ UNCHANGED <<LoopFrame, parentItems, cloneOther, cloneItems>>
    /\ UNCHANGED loopOthers

\* parallel_worker finds no free slot and waits for the semaphore.
IterBlock(k) ==
    /\ IterOf(k) = "created"
    /\ LoopHasSemaphore /\ loop_sem = 0
    /\ iter' = [iter EXCEPT ![k + 1] = "waiting"]
    /\ UNCHANGED <<items_is_list, total_items, loop_exc, items_type, item_context,
                   iterFails, rebinds, fail_fast, loop_conc,
                   loop_delay, iterStarted, itemCtx, loop_sem, doneOrder, consumed,
                   loop_results, loop_errors, fail_fast_triggered, completed_count,
                   loopPc, loopIdx, loopCtx>>
    /\ UNCHANGED <<LoopFrame, parentItems, cloneOther, cloneItems>>
    /\ UNCHANGED loopOthers

\* parallel_worker takes a slot and enters process_single_item.
IterStart(k) ==
    /\ IterOf(k) \in {"created", "waiting"}
    /\ LoopHasSemaphore => loop_sem > 0
    /\ loop_sem' = IF LoopHasSemaphore THEN loop_sem - 1 ELSE loop_sem
    /\ EnterItem(k)
    /\ UNCHANGED <<items_is_list, total_items, loop_exc, items_type,
                   iterFails, rebinds, fail_fast, loop_conc,
                   loop_delay, doneOrder, consumed, loop_results, loop_errors,
                   fail_fast_triggered, completed_count, loopPc, loopIdx, loopCtx>>
    /\ UNCHANGED <<LoopFrame, parentItems>>
    /\ UNCHANGED loopOthers

\* step_executor.execute(substeps_recipe, item_context) ends for item k: it
\* returns (after the substeps wrote another key and the configuration of the
\* item context and rebound item_key or transformed the object bound to it in
\* place, if they do; that object is the element of the parent's collection) or raises a
\* ValueError, which process_single_item catches; the iteration returns its
\* tuple (in run_parallel the slot is given back and the task is done).
IterFinish(k) ==
    /\ IterOf(k) = "running"
    /\ iter' = [iter EXCEPT ![k + 1] = "finished"]
    /\ itemCtx' = [itemCtx EXCEPT ![k + 1] =
                     IF (rebinds \/ in_place) /\ ~iterFails[k + 1] THEN 10 * @ ELSE @]
    /\ parentItems' = [parentItems EXCEPT ![k + 1] =
                         IF in_place /\ ~iterFails[k + 1] THEN 10 * @ ELSE @]
    /\ cloneOther' = [cloneOther EXCEPT ![k + 1] =
                        IF iterFails[k + 1] THEN @ ELSE <<1, 1>>]
    /\ loop_sem' = IF LoopHasSemaphore /\ ~Sequential THEN loop_sem + 1 ELSE loop_sem
    /\ doneOrder' = Append(doneOrder, k)
    /\ UNCHANGED <<items_is_list, total_items, loop_exc, items_type, item_context,
                   iterFails, rebinds, fail_fast, loop_conc,
                   loop_delay, iterStarted, consumed, loop_results, loop_errors,
                   fail_fast_triggered, completed_count, loopPc, loopIdx, loopCtx>>
    /\ UNCHANGED <<LoopFrame, cloneItems>>
    /\ UNCHANGED loopOthers

\* run_parallel, one turn of for fut in asyncio.as_completed(tasks): the
\* next result in order of completion is awaited and recorded.
ParCollect ==
    /\ loopPc = "collecting"
    /\ ~fail_fast_triggered
    /\ consumed < Len(doneOrder)
    /\ AfterOutcome(doneOrder[consumed + 1])
    /\ consumed' = consumed + 1
    /\ UNCHANGED <<items_is_list, total_items, loop_exc, items_type, item_context,
                   iterFails, rebinds, fail_fast, loop_conc,
                   loop_delay, iter, iterStarted, itemCtx, loop_sem, doneOrder, loopPc,
                   loopIdx, loopCtx>>
    /\ UNCHANGED <<LoopFrame, parentItems, cloneOther, cloneItems>>
    /\ UNCHANGED loopOthers

\* run_parallel: the as_completed loop ends, by break on fail_fast_triggered
\* or because every task was taken.
ParCollectEnd ==
    /\ loopPc = "collecting"
    /\ (fail_fast_triggered \/ consumed = total_items)
    /\ loopPc' = "writeback"
    /\ UNCHANGED <<items_is_list, total_items, loop_exc, items_type, item_context,
                   iterFails, rebinds, fail_fast, loop_conc,
                   loop_delay, iter, iterStarted, itemCtx, loop_sem, doneOrder,
                   consumed, loop_results, loop_errors, fail_fast_triggered,
                   completed_count, loopIdx, loopCtx>>
    /\ UNCHANGED <<LoopFrame, parentItems, cloneOther, cloneItems>>
    /\ UNCHANGED loopOthers

\* context[result_key] = results; if errors is not empty,
\* context[result_key + "__errors"] = errors; execute returns.
LoopWriteBack ==
    /\ loopPc = "writeback"
    /\ loopCtx' = [has_result |-> TRUE,
                   result |-> loop_results,
                   has_errors |-> (loopCtx.has_errors \/ loop_errors # <<>>),
                   errors |-> IF loop_errors # <<>> THEN loop_errors ELSE loopCtx.errors]
    /\ loopPc' = "returned"
    /\ UNCHANGED <<items_is_list, total_items, loop_exc, items_type, item_context,
                   iterFails, rebinds, fail_fast, loop_conc,
                   loop_delay, iter, iterStarted, itemCtx, loop_sem, doneOrder,
                   consumed, loop_results, loop_errors, fail_fast_triggered,
                   completed_count, loopIdx>>
    /\ UNCHANGED <<LoopFrame, parentItems, cloneOther, cloneItems>>
    /\ UNCHANGED loopOthers

LoopNext ==
    \/ LoopItemsError
    \/ LoopEmpty
    \/ LoopBegin
    \/ SeqStart
    \/ SeqCollect
    \/ SeqExhausted
    \/ LoopLaunchAll
    \/ LoopLaunchNext
    \/ \E k \in Items : IterBlock(k)
    \/ \E k \in Items : IterStart(k)
    \/ \E k \in Items : IterFinish(k)
    \/ ParCollect
    \/ ParCollectEnd
    \/ LoopWriteBack

InitLoop == LoopInit /\ CtxInit /\ ExIdle /\ ParIdle /\ CondIdle /\ ErIdle /\ RegIdle /\ NoCancel /\ ReIdle /\ LdIdle /\ RdIdle /\ LgIdle

SpecLoop == InitLoop /\ [][LoopNext]_vars

\* The loop step run on a context that an earlier loop step has written to.
InitLoopStale == LoopInitStale /\ CtxInit /\ ExIdle /\ ParIdle /\ CondIdle /\ ErIdle /\ RegIdle /\ NoCancel /\ ReIdle /\ LdIdle /\ RdIdle /\ LgIdle

SpecLoopStale == InitLoopStale /\ [][LoopNext]_vars

LoopEnded == loopPc \in {"returned", "raised"}
SomeIterationFailed == \E k \in Items : IterOf(k) = "finished" /\ iterFails[k + 1]

\* The value stored under result_key, as the caller reads it: a list (the
\* values by position) or a dict (the values by key).
ResultList == [p \in 1..Len(loopCtx.result) |-> loopCtx.result[p].val]
ResultKeys == {loopCtx.result[p].key : p \in 1..Len(loopCtx.result)}
\* What each item's iteration produces when it succeeds.
Expected(k) == IF rebinds \/ in_place THEN 10 * ItemAt(k) ELSE ItemAt(k)

\* C8 (as claimed): after a loop in which every iteration succeeded, the
\* value under result_key has the length (list) or the keys (dict) of the
\* input, and for a list the result of the item at index i is at position i.
C8_ResultsInInputOrder ==
    (loopPc = "returned" /\ \A k \in Items : ~iterFails[k + 1]) =>
        /\ loopCtx.has_result
        /\ Len(loopCtx.result) = total_items
        /\ items_is_list => ResultList = [p \in 1..total_items |-> Expected(p - 1)]
        /\ ~items_is_list => ResultKeys = Items

\* C9 (as claimed): a loop with fail_fast = true in which an iteration
\* failed does not complete normally.
C9_FailFastRaises ==
    (fail_fast /\ SomeIterationFailed /\ fail_fast_triggered) => loopPc # "returned"

\* C10: over a list or a dict, with fail_fast = false no item is processed twice, the loop never
\* raises, and when it returns every item was processed by one iteration that
\* finished and has exactly one entry: a result (stored under result_key) if
\* it succeeded, an error record with its index or key and the error message
\* (stored under result_key__errors) if it failed.
C10_OneEntryPerItem ==
    (~fail_fast /\ items_type \in {"list", "dict"}) =>
        /\ \A k \in Items : iterStarted[k + 1] <= 1
        /\ loopPc # "raised"
        /\ loopPc = "returned" =>
             /\ loopCtx.has_result
             /\ \A k \in Items :
                  LET nres == Cardinality({p \in 1..Len(loopCtx.result) :
                                              loopCtx.result[p].key = k})
                      nerr == Cardinality({p \in 1..Len(loop_errors) :
                                              loop_errors[p].index = k})
                  IN /\ iterStarted[k + 1] = 1
                     /\ IterOf(k) = "finished"
                     /\ nres + nerr = 1
                     /\ (nerr = 1) = iterFails[k + 1]
                     /\ nres = 1 =>
                          \E p \in 1..Len(loopCtx.result) :
                             loopCtx.result[p] = [key |-> k, val |-> Expected(k)]
                     /\ nerr = 1 =>
                          \E p \in 1..Len(loop_errors) :
                             loop_errors[p] = [index |-> k, error |-> ErrorMessage(k)]
             /\ loop_errors # <<>> =>
                  (loopCtx.has_errors /\ loopCtx.errors = loop_errors)

\* C10 witness: a loop over three items with fail_fast = false has returned
\* with one error record and two results, and the failed item was not the
\* last to be processed.
C10_Witness ==
    /\ ~fail_fast
    /\ loopPc = "returned"
    /\ total_items = 3
    /\ Len(loopCtx.result) = 2
    /\ Len(loopCtx.errors) = 1
    /\ loopCtx.errors[1].index = 1

\* C11 (as claimed): after a loop over a list with fail_fast = false, the
\* value under result_key has one position per input item, the result of the
\* item at index i is at position i, and a failed item's position is kept;
\* result_key__errors has one entry per failed item, referencing its index.
C11_FailedItemsKeepPosition ==
    (loopPc = "returned" /\ items_is_list /\ ~fail_fast /\ total_items > 0) =>
        /\ Len(ResultList) = total_items
        /\ \A k \in Items : ~iterFails[k + 1] => ResultList[k + 1] = Expected(k)
        /\ \A k \in Items :
             iterFails[k + 1] <=>
                \E p \in 1..Len(loopCtx.errors) : loopCtx.errors[p].index = k
        /\ Len(loopCtx.errors) = Cardinality({k \in Items : iterFails[k + 1]})

\* C12 (as claimed): after a loop step the parent context differs from its
\* state before the step in at most result_key and result_key__errors: the
\* elements of the items collection, the other artifacts and the
\* configuration are as they were.
C12_ParentFrame ==
    loopPc = "returned" =>
        /\ parentItems = [k \in 1..total_items |-> ItemAt(k - 1)]
        /\ parentOther = <<0, 0>>

\* C13 (as claimed): result_key__errors is written to the parent context if
\* and only if fail_fast is false and at least one iteration failed.
C13_ErrorsKeyIff ==
    /\ loopCtx.has_errors => (~fail_fast /\ SomeIterationFailed)
    /\ (loopPc = "returned" /\ ~fail_fast /\ SomeIterationFailed) => loopCtx.has_errors

IterRunning == {k \in Items : IterOf(k) = "running"}

\* C14: with max_concurrency = 1 an iteration is entered only when all the
\* iterations before it have finished; with max_concurrency = M > 1 at most M
\* iterations execute their substeps at the same time.
C14_LoopConcurrencyBound ==
    /\ loop_conc = 1 =>
          \A k \in Items : iterStarted[k + 1] > 0 =>
              \A j \in Items : j < k => IterOf(j) = "finished"
    /\ loop_conc > 1 => Cardinality(IterRunning) <= loop_conc

\* C14 witness: with max_concurrency = 2 two iterations execute their
\* substeps while a third waits for a slot.
C14_Witness ==
    /\ loop_conc = 2
    /\ Cardinality(IterRunning) = 2
    /\ \E k \in Items : IterOf(k) = "waiting"

(***************************************************************************)
(* ConditionalStep                                                         *)
(***************************************************************************)

\* Bound: the most steps in a branch.
MaxBranch == 2

\* What a step of a branch does: writes to the context, raises, or has a
\* type that is not in STEP_REGISTRY.
BranchKinds == {"set", "raise", "unknown"}
Branches == UNION {[1..n -> BranchKinds] : n \in 0..MaxBranch}

\* The rendered condition strings considered, by their parts: a comparison
\* "lhs op rhs", a bare operand, or the empty string.  The operands are the
\* texts null, 1, 'foo' (quoted), context['k'], and the unquoted identifiers
\* foo and bar.
CondOps == {"==", "<"}
CondOperands == {"null", "1", "'foo'", "context['k']", "foo", "bar"}
CondExprs ==
    [form : {"cmp"}, op : CondOps, lhs : CondOperands, rhs : CondOperands]
    \cup [form : {"bare"}, op : {""}, lhs : CondOperands, rhs : {""}]
    \cup {[form |-> "empty", op |-> "", lhs |-> "", rhs |-> ""]}

\* A value: its Python type, and its content as a string or as a number.
CondValue(t, str, num) == [t |-> t, s |-> str, n |-> num]
\* context['k'], an artifact of the context the step runs on.
CondContextValue == CondValue("str", "foo", 0)

\* _resolve_value: a context reference is looked up, a quoted string loses
\* its quotes, null, true and false are None, True and False, a numeral is
\* its number, and any other text is returned as it is, a string.
ResolveValue(tok) ==
    IF tok = "context['k']" THEN CondContextValue
    ELSE IF tok = "'foo'" THEN CondValue("str", "foo", 0)
    ELSE IF tok = "null" THEN CondValue("NoneType", "", 0)
    ELSE IF tok = "true" THEN CondValue("bool", "", 1)
    ELSE IF tok = "false" THEN CondValue("bool", "", 0)
    ELSE IF tok = "1" THEN CondValue("int", "", 1)
    ELSE IF tok = "2" THEN CondValue("int", "", 2)
    ELSE CondValue("str", tok, 0)

CondNumeric(v) == v.t \in {"bool", "int"}
\* The order of the strings that occur: "bar" < "foo".
StrRank(str) == IF str = "bar" THEN 1 ELSE 2

\* _COMPARISON_OPS[op_str](left, right), with Python's comparison: bool is a
\* number (True == 1); < between a string or None and a number, or with
\* None, raises TypeError.
Compare(op, l, r) ==
    IF op = "=="
    THEN IF CondNumeric(l) /\ CondNumeric(r)
         THEN (IF l.n = r.n THEN "true" ELSE "false")
         ELSE (IF l.t = r.t /\ l.s = r.s THEN "true" ELSE "false")
    ELSE IF CondNumeric(l) /\ CondNumeric(r)
         THEN (IF l.n < r.n THEN "true" ELSE "false")
    ELSE IF l.t = "str" /\ r.t = "str"
         THEN (IF StrRank(l.s) < StrRank(r.s) THEN "true" ELSE "false")
    ELSE "error"

\* _is_truthy, for the value of a context reference.
IsTruthy(v) ==
    IF v.t = "NoneType" THEN "false"
    ELSE IF v.t = "bool" THEN (IF v.n = 1 THEN "true" ELSE "false")
    ELSE IF v.t = "str" THEN (IF v.s # "" THEN "true" ELSE "false")
    ELSE "true"

\* _eval_simple_expr: a comparison resolves both operands and compares them;
\* a bare context reference is tested for truthiness; bare true, false and
\* null are True, False and False; anything else raises ValueError.
EvalSimpleExpr(e) ==
    IF e.form = "cmp" THEN Compare(e.op, ResolveValue(e.lhs), ResolveValue(e.rhs))
    ELSE IF e.lhs = "context['k']" THEN IsTruthy(ResolveValue(e.lhs))
    ELSE IF e.lhs = "true" THEN "true"
    ELSE IF e.lhs \in {"false", "null"} THEN "false"
    ELSE "error"

\* _eval_condition: the empty string raises ValueError; the expressions
\* considered are not and(...), or(...) or not(...), so they go to
\* _eval_simple_expr.  "error": an exception, which execute re-raises as
\* ValueError("Error evaluating conditional expression").
EvalCondition(e) == IF e.form = "empty" THEN "error" ELSE EvalSimpleExpr(e)

CondInit ==
    /\ cond_eval \in CondExprs
    /\ cond_result = EvalCondition(cond_eval)
    /\ has_if_true \in BOOLEAN
    /\ has_if_false \in BOOLEAN
    /\ if_true \in (IF has_if_true THEN Branches ELSE {<<>>})
    /\ if_false \in (IF has_if_false THEN Branches ELSE {<<>>})
    /\ condPc = "new"
    /\ condIdx = 0
    /\ condBuilt = {}
    /\ condRan = {}
    /\ condCtx = <<>>
    /\ condOut = "none"

\* (Mutant of BranchName: if_true is taken whatever the condition gives.)
BranchNameAlwaysTrue == "if_true"

\* branch_str = "if_true" if result else "if_false"
BranchName == IF cond_result = "true" THEN "if_true" ELSE "if_false"

\* branch = self.config.if_true if result else self.config.if_false
BranchPresent == IF BranchName = "if_true" THEN has_if_true ELSE has_if_false
\* steps = branch.get("steps", [])
BranchSteps == IF BranchName = "if_true" THEN if_true ELSE if_false

\* ConditionalStep.__init__: ConditionalConfig(**config).  if_true is a
\* required field (it has no default), so a config without it is rejected
\* with a validation error; if_false is Optional with default None.
CondConstruct ==
    /\ condPc = "new"
    /\ IF has_if_true
       THEN condPc' = "constructed" /\ UNCHANGED condOut
       ELSE condPc' = "raised" /\ condOut' = "config_error"
    /\ UNCHANGED <<cond_eval, cond_result, has_if_true, has_if_false, if_true,
                   if_false, condIdx,
                   condBuilt, condRan, condCtx>>
    /\ UNCHANGED condOthers

\* execute: rendering or evaluating the condition raises.
CondEvalError ==
    /\ condPc = "constructed"
    /\ cond_result = "error"
    /\ condPc' = "raised"
    /\ condOut' = "condition_error"
    /\ UNCHANGED <<cond_eval, cond_result, has_if_true, has_if_false, if_true,
                   if_false, condIdx,
                   condBuilt, condRan, condCtx>>
    /\ UNCHANGED condOthers

\* execute: the condition is evaluated and the selected branch is None.
CondBranchAbsent ==
    /\ condPc = "constructed"
    /\ cond_result # "error"
    /\ ~BranchPresent
    /\ condPc' = "returned"
    /\ condOut' = "returned"
    /\ UNCHANGED <<cond_eval, cond_result, has_if_true, has_if_false, if_true,
                   if_false, condIdx,
                   condBuilt, condRan, condCtx>>
    /\ UNCHANGED condOthers

\* execute: the condition is evaluated and the loop over the selected
\* branch's steps is entered.
CondEnterBranch ==
    /\ condPc = "constructed"
    /\ cond_result # "error"
    /\ BranchPresent
    /\ condPc' = "loop"
    /\ UNCHANGED <<cond_eval, cond_result, has_if_true, has_if_false, if_true,
                   if_false, condIdx,
                   condBuilt, condRan, condCtx, condOut>>
    /\ UNCHANGED condOthers

\* if step_type not in STEP_REGISTRY: raise ValueError
CondStepUnknown ==
    /\ condPc = "loop"
    /\ condIdx < Len(BranchSteps)
    /\ BranchSteps[condIdx + 1] = "unknown"
    /\ condPc' = "raised"
    /\ condOut' = "unknown_step"
    /\ UNCHANGED <<cond_eval, cond_result, has_if_true, has_if_false, if_true,
                   if_false, condIdx,
                   condBuilt, condRan, condCtx>>
    /\ UNCHANGED condOthers

\* step = step_cls(inner_logger, step_cfg); await step.execute(context)
CondStepStart ==
    /\ condPc = "loop"
    /\ condIdx < Len(BranchSteps)
    /\ BranchSteps[condIdx + 1] # "unknown"
    /\ condBuilt' = condBuilt \cup {<<BranchName, condIdx>>}
    /\ condPc' = "await"
    /\ UNCHANGED <<cond_eval, cond_result, has_if_true, has_if_false, if_true,
                   if_false, condIdx,
                   condRan, condCtx, condOut>>
    /\ UNCHANGED condOthers

\* step.execute(context) returns, having written to the (same) context.
CondStepCompletes ==
    /\ condPc = "await"
    /\ BranchSteps[condIdx + 1] = "set"
    /\ condCtx' = Append(condCtx, <<BranchName, condIdx>>)
    /\ condRan' = condRan \cup {<<BranchName, condIdx>>}
    /\ condIdx' = condIdx + 1
    /\ condPc' = "loop"
    /\ UNCHANGED <<cond_eval, cond_result, has_if_true, has_if_false, if_true, if_false, condBuilt,
                   condOut>>
    /\ UNCHANGED condOthers

\* step.execute(context) raises; the exception leaves execute.
CondStepRaises ==
    /\ condPc = "await"
    /\ BranchSteps[condIdx + 1] = "raise"
    /\ condPc' = "raised"
    /\ condOut' = "step_error"
    /\ UNCHANGED <<cond_eval, cond_result, has_if_true, has_if_false, if_true,
                   if_false, condIdx,
                   condBuilt, condRan, condCtx>>
    /\ UNCHANGED condOthers

\* The loop over the branch's steps is exhausted; execute returns.
CondBranchDone ==
    /\ condPc = "loop"
    /\ condIdx = Len(BranchSteps)
    /\ condPc' = "returned"
    /\ condOut' = "returned"
    /\ UNCHANGED <<cond_eval, cond_result, has_if_true, has_if_false, if_true,
                   if_false, condIdx,
                   condBuilt, condRan, condCtx>>
    /\ UNCHANGED condOthers

CondNext ==
    \/ CondConstruct
    \/ CondEvalError
    \/ CondBranchAbsent
    \/ CondEnterBranch
    \/ CondStepUnknown
    \/ CondStepStart
    \/ CondStepCompletes
    \/ CondStepRaises
    \/ CondBranchDone

InitCond == CondInit /\ CtxInit /\ ExIdle /\ ParIdle /\ LoopIdle /\ ErIdle /\ RegIdle /\ NoCancel /\ ReIdle /\ LdIdle /\ RdIdle /\ LgIdle

SpecCond == InitCond /\ [][CondNext]_vars

CondEnded == condPc \in {"returned", "raised"}

\* C15: no step of the unselected branch is constructed or executed: when
\* the condition is true every step constructed is one of if_true, when it is
\* false every step constructed is one of if_false.
C15_UnselectedNeverConstructed ==
    /\ cond_result = "true" => \A s \in condBuilt \cup condRan : s[1] = "if_true"
    /\ cond_result = "false" => \A s \in condBuilt \cup condRan : s[1] = "if_false"
    /\ cond_result = "error" => condBuilt \cup condRan = {}

\* C15 witness: the condition was false, both branches have steps, and the
\* step has returned after running the steps of if_false.
C15_Witness ==
    /\ cond_result = "false"
    /\ condPc = "returned"
    /\ Len(if_true) = 2 /\ Len(if_false) = 2
    /\ condRan = {<<"if_false", 0>>, <<"if_false", 1>>}

\* C16 (as claimed): when the branch the condition selects is absent from
\* the config, the conditional step completes without error, constructs no
\* step and leaves the context unchanged, for either branch.
C16_AbsentBranchNoOp ==
    (CondEnded /\ cond_result # "error" /\ ~BranchPresent) =>
        /\ condOut = "returned"
        /\ condBuilt = {}
        /\ condCtx = <<>>

(***************************************************************************)
(* ExecuteRecipeStep.execute                                               *)
(***************************************************************************)

\* Bounds: the most overrides, and the most steps of the referenced recipe.
MaxOverrides == 2
MaxSubSteps == 2

\* An override value is a template: a literal, one that reads key "k1" of
\* the context, or one whose rendering raises.
OverrideValues == {"lit", "ref", "bad"}
\* context_overrides is a dict: its keys are distinct.
OverrideSeqs ==
    UNION {{o \in [1..n -> [key : ErKeys, value : OverrideValues]] :
               \A i, j \in 1..n : i # j => o[i].key # o[j].key} : n \in 0..MaxOverrides}
\* What a step of the referenced recipe does: writes "k1", writes "k3", raises.
SubKinds == {"write_k1", "write_k3", "raise"}
SubRecipes == UNION {[1..n -> SubKinds] : n \in 0..MaxSubSteps}

\* render_template(value, context): the rendered text depends on the
\* context at the time of rendering.  Values are numbers; 0 is an absent key.
Render(v, c) == IF v = "lit" THEN 1 ELSE 10 + c["k1"]
\* What a sub-recipe step writes.
SubValue == 99

ErInit ==
    /\ executor_kind \in {"async", "sync"}
    /\ path_exists \in BOOLEAN
    /\ context_overrides \in OverrideSeqs
    /\ sub_steps \in SubRecipes
    /\ rendered_overrides = [k \in ErKeys |-> 0]
    /\ erCtx = [k \in ErKeys |-> 0]
    /\ erPc = "start"
    /\ erIdx = 0
    /\ subRan = {}
    /\ subWrote = {}
    /\ erOut = "none"

\* (Mutant of ErFileNotFound: the file is looked for after the overrides have
\* been applied.)
ErFileNotFoundLate ==
    /\ erPc = "start"
    /\ ~path_exists
    /\ erPc' = "raised"
    /\ erOut' = "file_not_found"
    /\ erCtx' = [k \in ErKeys |->
                   IF \E i \in 1..Len(context_overrides) : context_overrides[i].key = k
                   THEN 1 ELSE erCtx[k]]
    /\ UNCHANGED <<executor_kind, path_exists, context_overrides, sub_steps,
                   rendered_overrides, erIdx, subRan, subWrote>>
    /\ UNCHANGED erOthers

\* if not os.path.exists(rendered_recipe_path): raise FileNotFoundError
ErFileNotFound ==
    /\ erPc = "start"
    /\ ~path_exists
    /\ erPc' = "raised"
    /\ erOut' = "file_not_found"
    /\ UNCHANGED <<executor_kind, path_exists, context_overrides, sub_steps,
                   rendered_overrides, erCtx, erIdx, subRan, subWrote>>
    /\ UNCHANGED erOthers

\* (Mutant of SetOverride: the override is not stored in the context the
\* step was given.)
SetOverrideNowhere(c, k, val) == c

\* context[key] = rendered_value
SetOverride(c, k, val) == [c EXCEPT ![k] = val]

\* The for loop over context_overrides.items() from entry i on, in state
\* st = [ctx, rendered, ok]: each value is rendered against the context as it
\* is then and stored; a rendering error leaves the loop with the overrides
\* applied so far.
RECURSIVE ApplyOverrides(_, _)
ApplyOverrides(i, st) ==
    IF i > Len(context_overrides) THEN st
    ELSE LET o == context_overrides[i] IN
         IF o.value = "bad" THEN [st EXCEPT !.ok = FALSE]
         ELSE LET val == Render(o.value, st.ctx) IN
              ApplyOverrides(i + 1,
                  [ctx |-> SetOverride(st.ctx, o.key, val),
                   rendered |-> [st.rendered EXCEPT ![o.key] = val],
                   ok |-> TRUE])

\* execute from the overrides to the call self.executor.execute(path,
\* context).  execute is a plain function and does not await the call: with
\* the Executor of executor.py, whose execute is a coroutine function, the call
\* only creates a coroutine object and execute returns; a synchronous
\* executor starts running the referenced recipe on the same context.
ErOverridesAndCall ==
    /\ erPc = "start"
    /\ path_exists
    /\ LET st == ApplyOverrides(1, [ctx |-> erCtx, rendered |-> rendered_overrides,
                                    ok |-> TRUE]) IN
       /\ erCtx' = st.ctx
       /\ rendered_overrides' = st.rendered
       /\ IF ~st.ok
          THEN erPc' = "raised" /\ erOut' = "render_error"
          ELSE IF executor_kind = "async"
               THEN erPc' = "returned" /\ erOut' = "returned"
               ELSE erPc' = "sub" /\ UNCHANGED erOut
    /\ UNCHANGED <<executor_kind, path_exists, context_overrides, sub_steps, erIdx,
                   subRan, subWrote>>
    /\ UNCHANGED erOthers

\* The executor runs the next step of the referenced recipe on the context
\* it was given, and the step completes.
ErSubStepCompletes ==
    /\ erPc = "sub"
    /\ erIdx < Len(sub_steps)
    /\ sub_steps[erIdx + 1] # "raise"
    /\ LET k == IF sub_steps[erIdx + 1] = "write_k1" THEN "k1" ELSE "k3" IN
       /\ erCtx' = [erCtx EXCEPT ![k] = SubValue]
       /\ subWrote' = subWrote \cup {k}
    /\ subRan' = subRan \cup {erIdx}
    /\ erIdx' = erIdx + 1
    /\ UNCHANGED <<executor_kind, path_exists, context_overrides, sub_steps,
                   rendered_overrides, erPc, erOut>>
    /\ UNCHANGED erOthers

\* The next step of the referenced recipe raises: the executor raises, and
\* execute logs the error and re-raises it.
ErSubStepRaises ==
    /\ erPc = "sub"
    /\ erIdx < Len(sub_steps)
    /\ sub_steps[erIdx + 1] = "raise"
    /\ erPc' = "raised"
    /\ erOut' = "sub_recipe_error"
    /\ UNCHANGED <<executor_kind, path_exists, context_overrides, sub_steps,
                   rendered_overrides, erCtx, erIdx, subRan, subWrote>>
    /\ UNCHANGED erOthers

\* The executor has run every step of the referenced recipe; execute returns.
ErSubDone ==
    /\ erPc = "sub"
    /\ erIdx = Len(sub_steps)
    /\ erPc' = "returned"
    /\ erOut' = "returned"
    /\ UNCHANGED <<executor_kind, path_exists, context_overrides, sub_steps,
                   rendered_overrides, erCtx, erIdx, subRan, subWrote>>
    /\ UNCHANGED erOthers

ErNext ==
    \/ ErFileNotFound
    \/ ErOverridesAndCall
    \/ ErSubStepCompletes
    \/ ErSubStepRaises
    \/ ErSubDone

InitEr == ErInit /\ CtxInit /\ ExIdle /\ ParIdle /\ LoopIdle /\ CondIdle /\ RegIdle /\ NoCancel /\ ReIdle /\ LdIdle /\ RdIdle /\ LgIdle

SpecEr == InitEr /\ [][ErNext]_vars

ErEnded == erPc \in {"returned", "raised"}
OverrideKeys == {context_overrides[i].key : i \in 1..Len(context_overrides)}
AllRender == \A i \in 1..Len(context_overrides) : context_overrides[i].value # "bad"

\* C17: after an execute_recipe step whose recipe file exists and whose
\* overrides all render, the context has every override key equal to its
\* rendered value unless a sub-recipe step wrote that key, whether the
\* sub-recipe succeeded or failed.
C17_OverridesVisible ==
    (ErEnded /\ path_exists /\ AllRender) =>
        \A i \in 1..Len(context_overrides) :
            LET o == context_overrides[i] IN
            o.key \notin subWrote =>
                /\ rendered_overrides[o.key] # 0
                /\ erCtx[o.key] = rendered_overrides[o.key]

\* C17 witness: the step has failed because a step of the sub-recipe raised,
\* after two overrides were applied, one of them rendered from the other.
C17_Witness ==
    /\ erOut = "sub_recipe_error"
    /\ Len(context_overrides) = 2
    /\ context_overrides[1].key = "k1"
    /\ context_overrides[2].value = "ref"
    /\ erCtx[context_overrides[2].key] = 11
    /\ subWrote = {"k3"}

\* C18 (as claimed): when the execute_recipe step completes, every step of
\* the referenced recipe has completed on the very same context, so what they
\* wrote is in the context the following parent steps see; and when a step of
\* the referenced recipe fails, the execute_recipe step fails.
C18_SubRecipeRunsOnSameContext ==
    (erPc = "returned") =>
        /\ \A i \in 1..Len(sub_steps) : sub_steps[i] # "raise"
        /\ subRan = {i - 1 : i \in 1..Len(sub_steps)}
        /\ \A k \in subWrote : erCtx[k] = SubValue
        /\ (\E i \in 1..Len(sub_steps) : sub_steps[i] = "write_k3") => erCtx["k3"] = SubValue

(***************************************************************************)
(* The Step Registry                                                       *)
(***************************************************************************)

\* Bound: the most registrations.
MaxRegs == 3

RegInit == RegIdle

\* What a registration leaves behind in the history variables.
Logged(n, c, how) ==
    /\ first_registered' = [first_registered EXCEPT ![n] = IF @ = "none" THEN c ELSE @]
    /\ regLog' = Append(regLog, <<n, c, how>>)

\* STEP_REGISTRY.update({name: cls, ...}), one entry of it: dict.update binds
\* the name to the class whether or not the name has an entry, and returns.
RegistryUpdate(n, c) ==
    /\ Len(regLog) < MaxRegs
    /\ STEP_REGISTRY' = [STEP_REGISTRY EXCEPT ![n] = c]
    /\ regOut' = "ok"
    /\ Logged(n, c, "update")
    /\ UNCHANGED regOthers

\* register_steps: step_registry[step_key] = obj for a discovered class whose
\* "type" default is step_key; the assignment replaces an entry of that name.
RegisterStepsAssign(n, c) ==
    /\ Len(regLog) < MaxRegs
    /\ STEP_REGISTRY' = [STEP_REGISTRY EXCEPT ![n] = c]
    /\ regOut' = "ok"
    /\ Logged(n, c, "register_steps")
    /\ UNCHANGED regOthers

RegNext ==
    \/ \E n \in TypeNames, c \in StepClasses : RegistryUpdate(n, c)
    \/ \E n \in TypeNames, c \in StepClasses : RegisterStepsAssign(n, c)

InitReg == RegInit /\ CtxInit /\ ExIdle /\ ParIdle /\ LoopIdle /\ CondIdle /\ ErIdle /\ NoCancel /\ ReIdle /\ LdIdle /\ RdIdle /\ LgIdle

SpecReg == InitReg /\ [][RegNext]_vars

\* C20 (as claimed): registering a type name that already has an entry is a
\* configuration error and never an overwrite: the class bound to a name is
\* always the one of its first registration, no entry is removed, and a
\* registration of a name that has an entry ends in an error.
C20_NoSilentOverwrite ==
    [][/\ \A n \in TypeNames :
            /\ first_registered'[n] # "none" => STEP_REGISTRY'[n] = first_registered'[n]
            /\ STEP_REGISTRY[n] # "none" => STEP_REGISTRY'[n] # "none"
       /\ (Len(regLog') > Len(regLog) /\ STEP_REGISTRY[regLog'[Len(regLog')][1]] # "none")
             => regOut' = "error"]_vars

(***************************************************************************)
(* ParallelStep.execute cancelled by its caller                            *)
(***************************************************************************)

\* The task running execute is cancelled while execute is suspended in
\* result = await task on a task that has not finished: the awaited task is
\* cancelled with it (a cancelled task that held a slot gives it back) and
\* CancelledError is raised at the await, where except asyncio.CancelledError:
\* continue catches it; MainResume then goes on with the next index.
ParCancelAtAwait ==
    /\ ~cancel_requested
    /\ parPc = "await"
    /\ ~Finished(TaskOf(idx))
    /\ cancel_requested' = TRUE
    /\ task' = [task EXCEPT ![idx + 1] = CancelTask(@)]
    /\ sem' = IF HasSemaphore /\ idx \in InFlight THEN SemRelease(sem) ELSE sem
    /\ UNCHANGED <<step_count, subKind, max_concurrency, delay, pending_idx, launcher,
                   stop_launching, parPc, idx, results, gathered, inflight_exc, parOut,
                   pctx, taskCtx, firstFailed>>
    /\ UNCHANGED <<ctxVars, exVars, loopVars, condVars, erVars, regVars, reVars, ldVars, rdVars, lgVars>>

\* The task is cancelled while execute is suspended in asyncio.sleep(0.01):
\* CancelledError passes except Exception and reaches finally, which cancels
\* and awaits the launcher; execute ends with CancelledError.  No substep
\* task is cancelled on this path.
ParCancelAtSleep ==
    /\ ~cancel_requested
    /\ parPc = "sleep"
    /\ cancel_requested' = TRUE
    /\ launcher' = CancelLauncher(launcher)
    /\ parOut' = CancelledError
    /\ parPc' = "raised"
    /\ UNCHANGED <<step_count, subKind, max_concurrency, delay, task, sem, pending_idx,
                   stop_launching, idx, results, gathered, inflight_exc, pctx, taskCtx,
                   firstFailed>>
    /\ UNCHANGED <<ctxVars, exVars, loopVars, condVars, erVars, regVars, reVars, ldVars, rdVars, lgVars>>

\* The task is cancelled while execute is suspended in asyncio.gather: gather
\* cancels the tasks it was given that have not finished, CancelledError
\* reaches finally, and execute ends with CancelledError.
ParCancelAtGather ==
    /\ ~cancel_requested
    /\ parPc = "gather"
    /\ cancel_requested' = TRUE
    /\ task' = [j \in 1..step_count |->
                  IF j - 1 < gathered THEN CancelTask(task[j]) ELSE task[j]]
    /\ sem' = IF HasSemaphore
              THEN sem + Cardinality({k \in InFlight : k < gathered})
              ELSE sem
    /\ launcher' = CancelLauncher(launcher)
    /\ parOut' = CancelledError
    /\ parPc' = "raised"
    /\ UNCHANGED <<step_count, subKind, max_concurrency, delay, pending_idx,
                   stop_launching, idx, results, gathered, inflight_exc, pctx, taskCtx,
                   firstFailed>>
    /\ UNCHANGED <<ctxVars, exVars, loopVars, condVars, erVars, regVars, reVars, ldVars, rdVars, lgVars>>

ParCancelNext ==
    \/ ParNoSubsteps
    \/ ParStart
    \/ LauncherLaunch
    \/ LauncherExit
    \/ \E i \in Launched : SubstepBlock(i)
    \/ \E i \in Launched : SubstepStart(i)
    \/ \E i \in Launched : SubstepCompletes(i)
    \/ \E i \in Launched : SubstepRaises(i)
    \/ MainWake
    \/ MainResume
    \/ MainGatherDone
    \/ ParCancelAtAwait
    \/ ParCancelAtSleep
    \/ ParCancelAtGather

SpecParCancel == InitPar /\ [][ParCancelNext]_vars

Unfinished == {i \in Subs : TaskOf(i) \in {"created", "waiting", "running"}}

\* C21 (as claimed): once a running parallel step has been cancelled at one
\* of its suspension points, none of its substeps is in flight any longer, no
\* further substep is launched, and the step does not go on: it ends, and it
\* ends as cancelled.
C21_CancellationPropagates ==
    [][cancel_requested' =>
          /\ Unfinished' = {}
          /\ \A i \in Subs : (task[i + 1] = "unlaunched") => (task'[i + 1] = "unlaunched")
          /\ ParEnded' /\ parOut' = CancelledError]_vars

\* C22 (as claimed): in a concurrent loop (max_concurrency # 1) with
\* fail_fast = true, from the moment the first failure is observed no
\* iteration is running (the in-flight ones were cancelled), and none starts
\* later, the time after the loop step has terminated included.
C22_LoopFailFastCancels ==
    (fail_fast /\ loop_conc # 1 /\ fail_fast_triggered) => IterRunning = {}

\* C29 (as claimed): in a loop with fail_fast = true no iteration is launched
\* (it is not entered in sequential mode, no task is created for it in
\* concurrent mode) once an iteration has failed.
C29_NoLaunchAfterFailure ==
    [][(fail_fast /\ SomeIterationFailed) =>
          \A k \in Items :
             (iter[k + 1] = "unlaunched") => (iter'[k + 1] = "unlaunched")]_vars


(***************************************************************************)
(* Context ownership in the branching steps (parallel and loop)            *)
(***************************************************************************)

\* One run of a branching step: a parallel step or a loop step.
InitBranch == InitPar \/ InitLoop

BranchNext == ParNext \/ LoopNext

SpecBranch == InitBranch /\ [][BranchNext]_vars

\* C23: in every state of a parallel step and of a loop step, the substeps
\* and the iterations that are running each hold a Context of their own (no
\* two of them hold the same one), none of them holds the parent Context, and
\* the Context a branch was given is the clone made for that branch.
C23_ContextOwnership ==
    /\ \A i \in InFlight : taskCtx[i + 1] # 0
    /\ \A i, j \in InFlight : (i # j) => (taskCtx[i + 1] # taskCtx[j + 1])
    /\ \A k \in IterRunning : item_context[k + 1] # 0
    /\ \A k, l \in IterRunning : (k # l) => (item_context[k + 1] # item_context[l + 1])
    /\ \A i \in Subs : taskCtx[i + 1] \in {-1, i + 1}
    /\ \A k \in Items : item_context[k + 1] \in {-1, k + 1}

\* C23 witness: two iterations of a loop are running at the same time, each
\* on its clone.
C23_Witness ==
    /\ \E k, l \in IterRunning : k # l /\ item_context[k + 1] = k + 1
                                       /\ item_context[l + 1] = l + 1


(***************************************************************************)
(* Executor: two concurrent execute invocations on one Executor instance   *)
(***************************************************************************)

\* Bound: the longest recipe of a concurrent invocation.
MaxReentSteps == 2

\* The two invocations; invocation e runs on its own context re_ctx[e].
Invocations == {1, 2}

\* What a step does: as StepKinds, without the kinds that behave alike.
ReentKinds == {"set", "raise", "unknown"}
ReentRecipes == UNION {[1..n -> ReentKinds] : n \in 0..MaxReentSteps}

ReReturned == [kind |-> "returned", type |-> "", index |-> 0]
\* The ValueError of the step loop, by its message: the unknown type carries
\* step_index, the failed step carries step_index + 1.
ReError(kind, type, i) ==
    [kind |-> kind, type |-> type,
     index |-> IF kind = "unknown_step_type" THEN i ELSE i + 1]

\* (Mutant of FrameOf: step_index is kept on the Executor instance, one slot
\* for all invocations.)
FrameShared(e) == 1

\* step_index, step, step_type and step_config are local variables of the
\* coroutine: each invocation has its own frame; the Executor instance has
\* the attribute logger only, which execute never assigns.
FrameOf(e) == e

ReIndex(e) == re_step_index[FrameOf(e)]
ReStepAt(e) == re_recipe[e][ReIndex(e) + 1]

ReInit ==
    /\ re_recipe \in [Invocations -> ReentRecipes]
    /\ re_step_index = [e \in Invocations |-> 0]
    /\ re_pc = [e \in Invocations |-> "loop"]
    /\ re_ctx = [e \in Invocations |-> <<>>]
    /\ re_out = [e \in Invocations |-> ReReturned]
    /\ re_order = <<>>

\* The for loop of invocation e is exhausted: execute returns.
ReReturn(e) ==
    /\ re_pc[e] = "loop"
    /\ ReIndex(e) >= Len(re_recipe[e])
    /\ re_pc' = [re_pc EXCEPT ![e] = "done"]
    /\ UNCHANGED <<re_recipe, re_step_index, re_ctx, re_out, re_order>>
    /\ UNCHANGED reOthers

\* step_type not in STEP_REGISTRY: invocation e raises ValueError.
ReUnknownType(e) ==
    /\ re_pc[e] = "loop"
    /\ ReIndex(e) < Len(re_recipe[e])
    /\ ReStepAt(e) = "unknown"
    /\ re_pc' = [re_pc EXCEPT ![e] = "failed"]
    /\ re_out' = [re_out EXCEPT ![e] = ReError("unknown_step_type", ReStepAt(e), ReIndex(e))]
    /\ UNCHANGED <<re_recipe, re_step_index, re_ctx, re_order>>
    /\ UNCHANGED reOthers

\* Invocation e constructs the step, calls execute(context) and awaits the
\* result: the coroutine is suspended and the other invocation may run.
ReStart(e) ==
    /\ re_pc[e] = "loop"
    /\ ReIndex(e) < Len(re_recipe[e])
    /\ ReStepAt(e) \in {"set", "raise"}
    /\ re_pc' = [re_pc EXCEPT ![e] = "awaiting"]
    /\ re_order' = Append(re_order, e)
    /\ UNCHANGED <<re_recipe, re_step_index, re_ctx, re_out>>
    /\ UNCHANGED reOthers

\* The awaited execute of invocation e completes: the step has written to the
\* context of e, and the for loop goes on to the next step.
ReStepCompletes(e) ==
    /\ re_pc[e] = "awaiting"
    /\ ReIndex(e) < Len(re_recipe[e])
    /\ ReStepAt(e) = "set"
    /\ re_ctx' = [re_ctx EXCEPT ![e] = Append(@, ReIndex(e))]
    /\ re_step_index' = [re_step_index EXCEPT ![FrameOf(e)] = @ + 1]
    /\ re_pc' = [re_pc EXCEPT ![e] = "loop"]
    /\ UNCHANGED <<re_recipe, re_out, re_order>>
    /\ UNCHANGED reOthers

\* The awaited execute of invocation e raises: caught by except Exception and
\* re-raised as ValueError("Step k failed").
ReStepRaises(e) ==
    /\ re_pc[e] = "awaiting"
    /\ ReIndex(e) < Len(re_recipe[e])
    /\ ReStepAt(e) = "raise"
    /\ re_pc' = [re_pc EXCEPT ![e] = "failed"]
    /\ re_out' = [re_out EXCEPT ![e] = ReError("step_failed", ReStepAt(e), ReIndex(e))]
    /\ UNCHANGED <<re_recipe, re_step_index, re_ctx, re_order>>
    /\ UNCHANGED reOthers

ReNext ==
    \/ \E e \in Invocations : ReReturn(e)
    \/ \E e \in Invocations : ReUnknownType(e)
    \/ \E e \in Invocations : ReStart(e)
    \/ \E e \in Invocations : ReStepCompletes(e)
    \/ \E e \in Invocations : ReStepRaises(e)

InitReent == ReInit /\ CtxInit /\ ExIdle /\ ParIdle /\ LoopIdle /\ CondIdle /\ ErIdle /\ RegIdle /\ NoCancel /\ LdIdle /\ RdIdle /\ LgIdle

SpecReent == InitReent /\ [][ReNext]_vars

\* One invocation run alone on steps i.. of recipe rcp, from context c: the
\* steps one after the other, up to the first that fails.
RECURSIVE RunAlone(_, _, _)
RunAlone(rcp, i, c) ==
    IF i >= Len(rcp) THEN [ctx |-> c, out |-> ReReturned]
    ELSE IF rcp[i + 1] = "set" THEN RunAlone(rcp, i + 1, Append(c, i))
    ELSE IF rcp[i + 1] = "raise"
         THEN [ctx |-> c, out |-> ReError("step_failed", "raise", i)]
         ELSE [ctx |-> c, out |-> ReError("unknown_step_type", "unknown", i)]

ReEnded(e) == re_pc[e] \in {"done", "failed"}

\* C24: of two execute invocations on one Executor with distinct contexts,
\* interleaved in any way at their awaits, each ends with its context in the
\* state, and with the outcome, it has when it runs alone; until then its
\* context holds a prefix of the writes it makes when it runs alone.
C24_Reentrancy ==
    \A e \in Invocations :
       LET alone == RunAlone(re_recipe[e], 0, <<>>)
       IN /\ ReEnded(e) => (re_ctx[e] = alone.ctx /\ re_out[e] = alone.out)
          /\ Len(re_ctx[e]) <= Len(alone.ctx)
          /\ re_ctx[e] = SubSeq(alone.ctx, 1, Len(re_ctx[e]))

\* C24 witness: both invocations have ended, one returned and one failed,
\* after their steps were started alternately.
C24_Witness ==
    /\ re_pc[1] = "done" /\ re_pc[2] = "failed"
    /\ Len(re_ctx[1]) = MaxReentSteps
    /\ Len(re_order) >= 4
    /\ \A p \in 1..(Len(re_order) - 1) : re_order[p] # re_order[p + 1]


\* C25 (as claimed): when the constructor of step k raises, execute fails
\* with a step-config error, and when the execute of step k raises, with a
\* step-runtime error naming the type of the step; the two are different
\* kinds of error, and both carry the index k of the failing step.
C25_ConfigVsRuntimeError ==
    (exPc = "failed" /\ StepAt(exErr.index) \in {"badconfig", "raise"}) =>
        /\ exErr.kind = IF StepAt(exErr.index) = "badconfig"
                        THEN "step_config_error" ELSE "step_runtime_error"
        /\ exMsg.index = exErr.index
        /\ exMsg.type = StepAt(exErr.index)


(***************************************************************************)
(* Executor.execute: loading and validating the recipe argument            *)
(***************************************************************************)

\* Bound: the most steps of a document.
MaxDocSteps == 2

\* The type of the recipe argument; "other" is any type that is not Recipe,
\* dict, str or Path.
ArgTypes == {"Recipe", "dict", "str", "Path", "other"}

\* A step object of a document: whether it has the field type (a string) and
\* whether it has the field config (a mapping).
DocSteps == [has_type : BOOLEAN, has_config : BOOLEAN]
\* A document: whether it has the field steps (a list), and the step objects.
Docs == {[has_steps |-> TRUE, steps |-> s] :
            s \in UNION {[1..n -> DocSteps] : n \in 0..MaxDocSteps}}
        \cup {[has_steps |-> FALSE, steps |-> <<>>]}

\* RecipeStep(BaseModel): type: str and config: Dict[str, Any], both without
\* a default, so both are required.
RecipeStepValid(s) == s.has_type /\ s.has_config

\* Recipe.model_validate(doc): steps: List[RecipeStep] is required and every
\* element must validate as a RecipeStep.
ModelValidate(doc) ==
    /\ doc.has_steps
    /\ \A p \in 1..Len(doc.steps) : RecipeStepValid(doc.steps[p])

LdNone == [class |-> "none", text |-> "", cause |-> ""]
\* An exception, as the caller sees it: its class, the fixed part of its
\* message, and the class of its __cause__.
LdError(class, text, cause) == [class |-> class, text |-> text, cause |-> cause]

LdIsString == ld_arg \in {"str", "Path"}

LdInit ==
    /\ ld_arg \in ArgTypes
    /\ ld_isfile \in (IF ld_arg \in {"str", "Path"} THEN BOOLEAN ELSE {FALSE})
    /\ ld_readable \in (IF ld_isfile THEN BOOLEAN ELSE {FALSE})
    /\ ld_parses \in (IF ld_arg \in {"str", "Path"} /\ (ld_isfile => ld_readable)
                      THEN BOOLEAN ELSE {FALSE})
    /\ ld_doc \in (IF ld_arg = "other" \/ (ld_arg \in {"str", "Path"} /\ ~ld_parses)
                   THEN {[has_steps |-> FALSE, steps |-> <<>>]}
                   ELSE IF ld_arg = "Recipe" THEN {d \in Docs : ModelValidate(d)}
                   ELSE Docs)
    /\ ld_pc = "load"
    /\ ld_out = LdNone
    /\ ld_index = 0
    /\ ld_constructed = <<>>
    /\ ld_ctx = <<>>

LdRaise(e) ==
    /\ ld_pc' = "raised"
    /\ ld_out' = e
    /\ UNCHANGED <<ld_arg, ld_isfile, ld_readable, ld_parses, ld_doc, ld_index,
                   ld_constructed, ld_ctx>>

LdLoaded ==
    /\ ld_pc' = "loop"
    /\ UNCHANGED <<ld_arg, ld_isfile, ld_readable, ld_parses, ld_doc, ld_out, ld_index,
                   ld_constructed, ld_ctx>>

\* The argument is none of Recipe, dict, str, Path: raise TypeError.
LdUnsupported ==
    /\ ld_pc = "load"
    /\ ld_arg = "other"
    /\ LdRaise(LdError("TypeError", "Unsupported recipe argument type", ""))
    /\ UNCHANGED ldOthers

\* isinstance(recipe, Recipe): the argument is the loaded recipe.
LdRecipeObject ==
    /\ ld_pc = "load"
    /\ ld_arg = "Recipe"
    /\ LdLoaded
    /\ UNCHANGED ldOthers

\* isinstance(recipe, dict): Recipe.model_validate(recipe); an exception is
\* re-raised as ValueError("Recipe validation failed from dict").
LdFromDict ==
    /\ ld_pc = "load"
    /\ ld_arg = "dict"
    /\ IF ModelValidate(ld_doc) THEN LdLoaded
       ELSE LdRaise(LdError("ValueError", "Recipe validation failed from dict",
                            "ValidationError"))
    /\ UNCHANGED ldOthers

\* A str (or a Path, converted to str) naming a file: open and read,
\* json.loads and Recipe.model_validate in one try block; any exception is
\* re-raised as ValueError("Failed to load or parse recipe file").
LdFromFile ==
    /\ ld_pc = "load"
    /\ LdIsString /\ ld_isfile
    /\ IF ~ld_readable
       THEN LdRaise(LdError("ValueError", "Failed to load or parse recipe file", "OSError"))
       ELSE IF ~ld_parses
       THEN LdRaise(LdError("ValueError", "Failed to load or parse recipe file",
                            "JSONDecodeError"))
       ELSE IF ~ModelValidate(ld_doc)
       THEN LdRaise(LdError("ValueError", "Failed to load or parse recipe file",
                            "ValidationError"))
       ELSE LdLoaded
    /\ UNCHANGED ldOthers

\* A str that names no file (a path that does not exist included) is taken as
\* JSON text: json.loads and Recipe.model_validate in one try block; any
\* exception is re-raised as ValueError("Failed to load recipe from JSON string").
LdFromJsonString ==
    /\ ld_pc = "load"
    /\ LdIsString /\ ~ld_isfile
    /\ IF ~ld_parses
       THEN LdRaise(LdError("ValueError", "Failed to load recipe from JSON string",
                            "JSONDecodeError"))
       ELSE IF ~ModelValidate(ld_doc)
       THEN LdRaise(LdError("ValueError", "Failed to load recipe from JSON string",
                            "ValidationError"))
       ELSE LdLoaded
    /\ UNCHANGED ldOthers

\* step_config = step.config: the config the constructor is given is the
\* field of the validated step.
LdStepConfig(s) == IF s.has_config THEN "given" ELSE "missing"

\* One turn of the for loop: the step is constructed with step_config and
\* executed; it writes to the context.
LdStep ==
    /\ ld_pc = "loop"
    /\ ld_index < Len(ld_doc.steps)
    /\ ld_constructed' = Append(ld_constructed, LdStepConfig(ld_doc.steps[ld_index + 1]))
    /\ ld_ctx' = Append(ld_ctx, ld_index)
    /\ ld_index' = ld_index + 1
    /\ UNCHANGED <<ld_arg, ld_isfile, ld_readable, ld_parses, ld_doc, ld_pc, ld_out>>
    /\ UNCHANGED ldOthers

\* The for loop is exhausted: execute returns.
LdReturn ==
    /\ ld_pc = "loop"
    /\ ld_index >= Len(ld_doc.steps)
    /\ ld_pc' = "returned"
    /\ UNCHANGED <<ld_arg, ld_isfile, ld_readable, ld_parses, ld_doc, ld_out, ld_index,
                   ld_constructed, ld_ctx>>
    /\ UNCHANGED ldOthers

LdNext ==
    \/ LdUnsupported
    \/ LdRecipeObject
    \/ LdFromDict
    \/ LdFromFile
    \/ LdFromJsonString
    \/ LdStep
    \/ LdReturn

InitLoad == LdInit /\ CtxInit /\ ExIdle /\ ParIdle /\ LoopIdle /\ CondIdle /\ ErIdle /\ RegIdle /\ NoCancel /\ ReIdle /\ RdIdle /\ LgIdle

SpecLoad == InitLoad /\ [][LdNext]_vars

\* The document reaches validation: it is the dict argument, or the text was
\* read and parsed.
LdDocumentReached ==
    \/ ld_arg = "dict"
    \/ LdIsString /\ ld_parses /\ (ld_isfile => ld_readable)

\* The positions of the step objects that have a type and no config.
LdNoConfigSteps == {p \in 1..Len(ld_doc.steps) :
                      ld_doc.steps[p].has_type /\ ~ld_doc.steps[p].has_config}

\* C26 (as claimed): a document with a steps list whose step objects all have
\* a type, some of them no config, passes validation (execute does not fail
\* loading it), and each step without config is constructed with an empty
\* config mapping.
C26_ConfigOptional ==
    (/\ LdDocumentReached
     /\ ld_doc.has_steps
     /\ \A p \in 1..Len(ld_doc.steps) : ld_doc.steps[p].has_type
     /\ LdNoConfigSteps # {}) =>
        /\ ld_pc # "raised"
        /\ ld_pc = "returned" =>
              \A p \in LdNoConfigSteps : ld_constructed[p] = "empty"


\* The errors execute raises for a text that cannot be read or parsed, as the
\* caller can tell them: by class and message.
LdLoadErrors ==
    {<<"ValueError", "Failed to load or parse recipe file">>,
     <<"ValueError", "Failed to load recipe from JSON string">>}

LdKind(e) == <<e.class, e.text>>

\* C27 (as claimed): execute resolves its argument before any step runs; an
\* argument of an unsupported type fails with TypeError, a file or a JSON
\* string that cannot be read or parsed fails with the load error, and a
\* document that violates the schema fails with a validation error, which is
\* not the load error; in the three cases no step is constructed and the
\* context is unchanged.
C27_LoadFailureKinds ==
    /\ ld_pc = "load" => (ld_constructed = <<>> /\ ld_ctx = <<>>)
    /\ ld_pc = "raised" =>
          /\ ld_constructed = <<>> /\ ld_ctx = <<>>
          /\ ld_arg = "other" => ld_out.class = "TypeError"
          /\ (LdIsString /\ ~LdDocumentReached) => LdKind(ld_out) \in LdLoadErrors
          /\ (LdDocumentReached /\ ~ModelValidate(ld_doc)) =>
                (ld_out.class # "TypeError" /\ LdKind(ld_out) \notin LdLoadErrors)
    /\ (ld_arg = "other" \/ (LdIsString /\ ~LdDocumentReached)
          \/ (LdDocumentReached /\ ~ModelValidate(ld_doc))) =>
          ld_pc \in {"load", "raised"}


\* C28 (as claimed): a rendered condition that the expression language
\* (comparisons and bare values over literals and context references) does
\* not generate never evaluates to a boolean: the conditional step raises the
\* error of the condition, and no branch step is constructed or executed.
C28_OutsideGrammarRaises ==
    LET operands == {"true", "false", "null", "1", "2", "'foo'", "context['k']"}
        inGrammar ==
            \/ cond_eval.form = "cmp" /\ cond_eval.lhs \in operands
                                      /\ cond_eval.rhs \in operands
            \/ cond_eval.form = "bare" /\ cond_eval.lhs \in operands
    IN ~inGrammar =>
          /\ condBuilt = {} /\ condRan = {}
          /\ condPc \notin {"new", "constructed"} =>
                /\ condPc = "raised"
                /\ condOut \in {"config_error", "condition_error"}
                /\ condOut = "condition_error" => cond_result = "error"


\* C30: when the items resolve to a value that is neither a list nor a dict,
\* the loop step does nothing but raise the error of the items type: no
\* iteration is created or entered, no clone is taken, and the parent context
\* is as it was (result_key and result_key__errors are not written).
C30_ItemsTypeError ==
    (items_type \notin {"list", "dict"}) =>
        /\ loopPc \in {"start", "raised"}
        /\ loopPc = "raised" =>
              loop_exc \in {"ValueError: Items collection must be a list or dict",
                            "ValueError: Items collection not found in context"}
        /\ \A k \in Items : /\ IterOf(k) = "unlaunched"
                            /\ iterStarted[k + 1] = 0
                            /\ item_context[k + 1] = -1
                            /\ itemCtx[k + 1] = 0
        /\ ~loopCtx.has_result
        /\ loopCtx.result = <<>>
        /\ loop_results = <<>> /\ loop_errors = <<>>

\* C30 witness: a loop over an int, configured with items to iterate, has
\* raised the error of the items type.
C30_Witness ==
    /\ items_type = "int"
    /\ total_items > 0
    /\ loopPc = "raised"
    /\ loop_exc = "ValueError: Items collection must be a list or dict"


(***************************************************************************)
(* Context: reading and deleting keys                                      *)
(***************************************************************************)

\* None, a value a caller may store under a key.
NoneVal == [t |-> "NoneType", v |-> 0]
\* The values a caller stores and passes as default.
StoredValues == {IntVal(0), IntVal(1), NoneVal}

RdNone == [kind |-> "none", val |-> NoVal]
\* The call returned value x.
RdValue(x) == [kind |-> "value", val |-> x]
\* The call raised KeyError.
RdKeyError == [kind |-> "KeyError", val |-> NoVal]

\* Context.__setitem__: context[k] = x.
CtxStore(c, k, x) ==
    /\ nops < MaxOps
    /\ ctxArt' = [ctxArt EXCEPT ![c][k] = x]
    /\ Touch(c, "set")
    /\ UNCHANGED <<heap, nalloc, ctxCfg, cloned>>
    /\ UNCHANGED rdVars
    /\ UNCHANGED rdOthers

\* Context.__delitem__: del context[k]; a present key is removed, an absent
\* key raises KeyError.
CtxDelItem(c, k) ==
    /\ nops < MaxOps
    /\ IF ctxArt[c][k] # NoVal
       THEN /\ ctxArt' = [ctxArt EXCEPT ![c][k] = NoVal]
            /\ read_result' = RdNone
       ELSE /\ UNCHANGED ctxArt
            /\ read_result' = RdKeyError
    /\ read_key' = k
    /\ Touch(c, "del")
    /\ UNCHANGED <<heap, nalloc, ctxCfg, cloned>>
    /\ UNCHANGED rdOthers

\* Context.__getitem__: context[k]; an absent key raises KeyError.
CtxGetItem(c, k) ==
    /\ nops < MaxOps
    /\ read_result' = IF ctxArt[c][k] # NoVal THEN RdValue(ctxArt[c][k]) ELSE RdKeyError
    /\ read_key' = k
    /\ Touch(c, "getitem")
    /\ UNCHANGED <<heap, nalloc, ctxArt, ctxCfg, cloned>>
    /\ UNCHANGED rdOthers

\* self._artifacts.get(key, default)
DictGet(m, k, default) == IF m[k] # NoVal THEN m[k] ELSE default

\* Context.get(key): the parameter default is None.
CtxGet(c, k) ==
    /\ nops < MaxOps
    /\ read_result' = RdValue(DictGet(ctxArt[c], k, NoneVal))
    /\ read_key' = k
    /\ Touch(c, "get")
    /\ UNCHANGED <<heap, nalloc, ctxArt, ctxCfg, cloned>>
    /\ UNCHANGED rdOthers

\* Context.get(key, default) with a default given by the caller.
CtxGetDefault(c, k, d) ==
    /\ nops < MaxOps
    /\ read_result' = RdValue(DictGet(ctxArt[c], k, d))
    /\ read_key' = k
    /\ Touch(c, "get_default")
    /\ UNCHANGED <<heap, nalloc, ctxArt, ctxCfg, cloned>>
    /\ UNCHANGED rdOthers

CtxReadNext ==
    \/ \E k \in Keys, x \in StoredValues : CtxStore("orig", k, x)
    \/ \E k \in Keys : CtxDelItem("orig", k)
    \/ \E k \in Keys : CtxGetItem("orig", k)
    \/ \E k \in Keys : CtxGet("orig", k)
    \/ \E k \in Keys : CtxGetDefault("orig", k, IntVal(1))

SpecCtxRead == InitCtx /\ [][CtxReadNext]_vars

\* C31 (as claimed): a delete of an absent key raises the not-found error
\* and leaves the artifacts as they were; a read of an absent key gives a
\* signal that no stored value gives (it is not a value a caller could have
\* stored), except get(key, default), which returns the default; none of
\* these operations adds the key.
C31_AbsentKeySignals ==
    [][(lastOp' \in {"del", "getitem", "get", "get_default"}
          /\ ctxArt["orig"][read_key'] = NoVal) =>
         /\ ctxArt' = ctxArt
         /\ lastOp' = "del" => read_result' = RdKeyError
         /\ lastOp' \in {"getitem", "get"} =>
               read_result' \notin {RdValue(x) : x \in StoredValues}
         /\ lastOp' = "get_default" => read_result' = RdValue(IntVal(1))]_vars


\* C32: when the rendered recipe_path names no existing file, the
\* execute_recipe step raises the file-not-found error and does nothing
\* else: no override is rendered or stored, no step of a sub-recipe runs, and
\* the context is as it was before the step.
C32_RecipeNotFound ==
    ~path_exists =>
        /\ erPc \in {"start", "raised"}
        /\ erPc = "raised" => erOut = "file_not_found"
        /\ erCtx = [k \in ErKeys |-> 0]
        /\ rendered_overrides = [k \in ErKeys |-> 0]
        /\ subRan = {} /\ subWrote = {}

\* C32 witness: a step with two overrides and a sub-recipe of two steps has
\* failed because the file does not exist.
C32_Witness ==
    /\ ~path_exists
    /\ erPc = "raised"
    /\ erOut = "file_not_found"
    /\ Len(context_overrides) = 2
    /\ Len(sub_steps) = 2

\* C33 (as claimed): every override value is rendered against the context as
\* it was before the step applied any override, so the value stored for an
\* override that reads key k1 does not depend on whether another override of
\* the step sets k1.
C33_OverridesRenderedAgainstEntry ==
    (ErEnded /\ path_exists /\ AllRender) =>
        \A i \in 1..Len(context_overrides) :
            LET o == context_overrides[i] IN
            rendered_overrides[o.key] = Render(o.value, [k \in ErKeys |-> 0])

\* C39 (as claimed): when rendering an override value fails, the step fails
\* and none of its overrides has been written to the context.
C39_OverridesAllOrNothing ==
    (erPc = "raised" /\ erOut = "render_error") => erCtx = [k \in ErKeys |-> 0]


\* C34 (as claimed): an iteration starts from a clone of the parent context
\* in which item_key is bound to its item; apart from that the clone equals
\* the parent context as it was when the loop step started (the items
\* collection, the other artifact and the configuration), so no write made by
\* another iteration is visible in it, in sequential and in concurrent mode.
C34_CloneAsAtLoopStart ==
    \A k \in Items :
        IterOf(k) = "running" =>
            /\ item_context[k + 1] = k + 1
            /\ itemCtx[k + 1] = ItemAt(k)
            /\ cloneOther[k + 1] = <<0, 0>>
            /\ cloneItems[k + 1] = [j \in 1..total_items |-> ItemAt(j - 1)]


\* C35: the result a successful iteration contributes is the value bound to
\* item_key in its clone when its substeps have completed: when the substeps
\* rebind item_key, the aggregated result holds the new value and the
\* parent's input collection holds the items it held before.
C35_ResultIsCloneBinding ==
    /\ \A p \in 1..Len(loop_results) :
          LET e == loop_results[p] IN
          /\ IterOf(e.key) = "finished" /\ ~iterFails[e.key + 1]
          /\ e.val = itemCtx[e.key + 1]
          /\ rebinds => e.val = 10 * ItemAt(e.key)
    /\ rebinds => parentItems = [k \in 1..total_items |-> ItemAt(k - 1)]
    /\ loopPc = "returned" /\ total_items > 0 => loopCtx.result = loop_results

\* C35 witness: a loop over three items whose substeps rebind item_key has
\* returned; the results are the rebound values and the input is unchanged.
C35_Witness ==
    /\ loopPc = "returned"
    /\ rebinds
    /\ total_items = 3
    /\ ResultList = <<10, 20, 30>>
    /\ parentItems = <<1, 2, 3>>


\* C40 (as claimed): after a loop step in which no iteration failed the
\* context holds no entry under result_key__errors, also when an entry was
\* there before the step, for empty and for non-empty input.
C40_NoStaleErrors ==
    (loopPc = "returned" /\ \A k \in Items : ~iterFails[k + 1]) => ~loopCtx.has_errors


\* C36 (as claimed): a condition that is one bare value, a literal (null, a
\* number, a quoted string) or a context reference, is evaluated by
\* truthiness and never raises: null is false, and the number 1, the string
\* 'foo' and a reference to a non-empty string are true.
C36_BareValueTruthiness ==
    (/\ condPc \notin {"new", "constructed"}
     /\ condOut # "config_error"
     /\ cond_eval.form = "bare"
     /\ cond_eval.lhs \in {"null", "1", "'foo'", "context['k']"}) =>
        /\ condOut # "condition_error"
        /\ cond_result = (IF cond_eval.lhs = "null" THEN "false" ELSE "true")


(***************************************************************************)
(* _eval_condition on and(...), or(...), not(...)                          *)
(***************************************************************************)

\* Bound: the most sub-expressions of a combinator.
MaxArgs == 3

\* The sub-expressions considered: bare values, one of which (the number 1)
\* _eval_simple_expr rejects.
LogicOps == {"and", "or", "not"}
LogicLeaves == {"true", "false", "context['k']", "1"}
LogicArgs == UNION {[1..n -> LogicLeaves] : n \in 0..MaxArgs}

\* _parse_logical: not(...) must have exactly one argument, and(...) and
\* or(...) at least two; otherwise ValueError.
LogicArityOk(op, n) == IF op = "not" THEN n = 1 ELSE n >= 2

\* _eval_condition(p, context) on a sub-expression that is a bare value.
LeafValue(tok) == EvalCondition([form |-> "bare", op |-> "", lhs |-> tok, rhs |-> ""])

\* _eval_logical_node, op == "and": the sub-expressions are evaluated in
\* order; the first false one ends the loop with False, an exception
\* propagates, and True is returned after the last.
RECURSIVE EvalAnd(_, _)
EvalAnd(args, i) ==
    IF i > Len(args) THEN "true"
    ELSE IF LeafValue(args[i]) = "error" THEN "error"
    ELSE IF LeafValue(args[i]) = "false" THEN "false"
    ELSE EvalAnd(args, i + 1)

\* _eval_logical_node, op == "or": the first true sub-expression ends the
\* loop with True; False is returned after the last.
RECURSIVE EvalOr(_, _)
EvalOr(args, i) ==
    IF i > Len(args) THEN "false"
    ELSE IF LeafValue(args[i]) = "error" THEN "error"
    ELSE IF LeafValue(args[i]) = "true" THEN "true"
    ELSE EvalOr(args, i + 1)

\* _eval_logical_node
EvalLogicalNode(op, args) ==
    IF op = "and" THEN EvalAnd(args, 1)
    ELSE IF op = "or" THEN EvalOr(args, 1)
    ELSE IF LeafValue(args[1]) = "error" THEN "error"
    ELSE IF LeafValue(args[1]) = "true" THEN "false"
    ELSE "true"

LogicInit ==
    /\ logic_op \in LogicOps
    /\ logic_args \in LogicArgs
    /\ logic_pc = "start"
    /\ logic_result = "none"

\* _parse_logical raises ValueError for the number of arguments.
LogicParseError ==
    /\ logic_pc = "start"
    /\ ~LogicArityOk(logic_op, Len(logic_args))
    /\ logic_pc' = "raised"
    /\ logic_result' = "error"
    /\ UNCHANGED <<logic_op, logic_args>>
    /\ UNCHANGED lgOthers

\* _parse_logical returns the node {"type": op, "args": parts}.
LogicParse ==
    /\ logic_pc = "start"
    /\ LogicArityOk(logic_op, Len(logic_args))
    /\ logic_pc' = "parsed"
    /\ UNCHANGED <<logic_op, logic_args, logic_result>>
    /\ UNCHANGED lgOthers

\* return _eval_logical_node(node, context)
LogicEval ==
    /\ logic_pc = "parsed"
    /\ logic_result' = EvalLogicalNode(logic_op, logic_args)
    /\ logic_pc' = IF logic_result' = "error" THEN "raised" ELSE "returned"
    /\ UNCHANGED <<logic_op, logic_args>>
    /\ UNCHANGED lgOthers

LogicNext ==
    \/ LogicParseError
    \/ LogicParse
    \/ LogicEval

InitLogic == LogicInit /\ CtxInit /\ ExIdle /\ ParIdle /\ LoopIdle /\ CondIdle /\ ErIdle /\ RegIdle /\ NoCancel /\ ReIdle /\ LdIdle /\ RdIdle

SpecLogic == InitLogic /\ [][LogicNext]_vars

\* C37 (as claimed): and(...) and or(...) accept one or more sub-expressions
\* and not(...) one: when every sub-expression evaluates, and(...) is true
\* iff all are true, or(...) iff at least one is (so and(a) and or(a) give
\* the truth value of a), and not(a) is the negation of a.
C37_LogicalCombinators ==
    LET n == Len(logic_args)
        Evaluates == \A i \in 1..n : logic_args[i] # "1"
        True(i) == logic_args[i] \in {"true", "context['k']"}
    IN  (/\ logic_pc \in {"returned", "raised"}
         /\ Evaluates
         /\ IF logic_op = "not" THEN n = 1 ELSE n >= 1) =>
            /\ logic_pc = "returned"
            /\ logic_op = "and" => (logic_result = "true" <=> \A i \in 1..n : True(i))
            /\ logic_op = "or" => (logic_result = "true" <=> \E i \in 1..n : True(i))
            /\ logic_op = "not" => (logic_result = "true" <=> ~True(1))
            /\ logic_result \in {"true", "false"}


\* C38 (as claimed): when the parallel step fails with the error of a
\* substep that could not be started (its type is not registered, or
\* rendering its definition or its constructor raised), the failure is
\* handled like that of a substep whose execute fails: the launcher has
\* stopped and no substep of the step is still running.
C38_CannotStartFailsFast ==
    \A i \in Subs :
        (/\ parPc = "raised"
         /\ inflight_exc = i
         /\ subKind[i + 1] \in {"unknown", "reject"}) =>
            /\ launcher \notin {"new", "sleep"}
            /\ InFlight = {}
====
